---- MODULE Spec2Model ----
(***************************************************************************)
(* State-machine model of src/extractor.py (class GitHubExtractor): the    *)
(* token pool, the rate-limit handler and the retrying request engine.     *)
(* One action per exit of an attempt of _make_graphql_request; the methods *)
(* _cycle_token and _handle_rate_limit are also callable on their own.     *)
(* Spec follows the methods called directly, one operation at a time and  *)
(* answered in every way; SpecFetch does the same for                      *)
(* fetch_repository_metadata; SpecSession follows a sequence of operations *)
(* on one extractor, with a clock that runs on and the record of what each *)
(* operation did; SpecMain follows main.py's loop over the repositories.   *)
(***************************************************************************)
EXTENDS Integers, Sequences, FiniteSets, TLC

(* ------------------------------ bounds -------------------------------- *)

\* Largest credential pool drawn at construction.
MaxPool == 2
\* Longest "errors" collection a response carries.
MaxErrors == 2
\* Completed operations a session keeps on record before its last one.
MaxCalls == 2
\* Longest list of repositories the CSV file yields.
MaxRepos == 2
\* Rows a batch holds before the loop flushes it: batch_size of main.py
\* line 174, which is 100 there.
batch_size == 2

(* ------------------------- program constants -------------------------- *)

\* retries: int = 3
DefaultRetries == 3
\* if remaining < 100
LowThreshold == 100
\* max(0, reset_time_utc - time.time()) + 10
SleepBuffer == 10
\* if status_code == 429
TooManyRequests == 429

(* ------------------------------ inputs -------------------------------- *)

\* Credentials, in the order the configuration lists them.
Credentials == <<"tokA", "tokB", "tokC", "tokD", "tokE">>

\* Values of rateLimit.remaining the remote service reports.
RemainingValues == {0, 5, 99, 100, 500}

\* rateLimit.resetAt, as an offset in seconds from the clock at the response.
ResetOffsets == {-5, 0, 20}

\* HTTP error statuses raise_for_status() turns into HTTPError.
HttpStatuses == {404, 429, 500}

\* (owner, name) pairs fetch_repository_metadata is called with.
Repositories == { <<"octocat", "Hello-World">> }

\* (owner, name) rows load_repositories_from_csv can yield, and the lists of
\* them; a row may stand in the file more than once.
CsvRows == { <<"octocat", "Hello-World">>, <<"torvalds", "linux">> }
RepositoryLists == UNION { [1..n -> CsvRows] : n \in 0..MaxRepos }

\* The tables main loads, in the order of its flushes: batches["projects"]
\* is projects_batch, successful_loads["projects"] is
\* successful_project_loads, and so on for the three child tables.
Tables == <<"projects", "topics", "build_configs", "dependencies">>
TableNames == { Tables[i] : i \in 1..Len(Tables) }
ChildTables == TableNames \ {"projects"}

VARIABLES
    payload_bound,   \* whether the free name `payload` (line 74) resolves
    api_tokens,      \* self.api_tokens
    cursor,          \* position of self._token_cycler in api_tokens
    current_token,   \* self._current_token
    headers,         \* self.headers["Authorization"]
    now,             \* time.time(), in seconds since the operation began
    pc,              \* "idle" | "attempt" | "sent" | "returned" | "raised"
    retries,         \* argument retries of the call in progress
    attempt,         \* loop variable of the call in progress
    response,        \* what requests.post gave the attempt in progress
    data,            \* the body a resolved call returned (empty: none)
    rl_call,         \* latest _handle_rate_limit frame: argument and clock
    trace,           \* what the current operation did, in order
    result,          \* the value a resolved call returned or raised
    fetch_args,      \* (owner, name) of the fetch_repository_metadata frame
    fetched,         \* what fetch_repository_metadata returned
    log,             \* logger.error lines of fetch_repository_metadata
    logged,          \* records the step just taken wrote to the logger
    snapshots,       \* per token, the rateLimit object last reported to it
    calls,           \* the operations completed before the current one
    main_pc,         \* main(): "start" | "loop" | "finished" | "exited"
    repositories_to_process,  \* main(): the list loaded from the CSV file
    pbar_n,          \* main(): iterations of the loop completed (pbar.n)
    failed_extraction_count,  \* main(): the counter of line 164
    fetches,         \* main(): the fetches it started, with the clock then
    batches,         \* main(): per table, the rows waiting to be loaded
    successful_loads,             \* main(): per table, the counter of lines 168-171
    failed_transformation_count,  \* main(): the counter of line 165
    loads,           \* main(): the load_* calls it made, in order
    transformed,     \* main(): the list positions whose project transformed
    conn             \* db_loader.conn: "None" | "open" | "closed"

\* What main keeps for the loader.
loading == <<batches, successful_loads, failed_transformation_count, loads,
             transformed>>

\* The state of main().
pipeline == <<main_pc, repositories_to_process, pbar_n,
              failed_extraction_count, fetches, loading, conn>>

vars == <<payload_bound, api_tokens, cursor, current_token, headers, now,
          pc, retries, attempt, response, data, rl_call, trace, result,
          fetch_args, fetched, log, logged, snapshots, calls, pipeline>>

\* What an attempt of _make_graphql_request never touches.
outside == <<payload_bound, api_tokens, retries, fetch_args, fetched, log,
             calls, pipeline>>

(* ----------------------------- the trace ------------------------------ *)

Ev(kind, tok, n) == [e |-> kind, tok |-> tok, n |-> n]
Post(tok)        == Ev("post", tok, 0)
Rotate(tok, i)   == Ev("rotate", tok, i)
Sleep(d)         == Ev("sleep", "", d)
Outcome(kind)    == Ev(kind, "", 0)

Kinds(tr)     == [i \in 1..Len(tr) |-> tr[i].e]
Only(tr, k)   == SelectSeq(tr, LAMBDA ev : ev.e = k)
Posts(tr)     == [i \in 1..Len(Only(tr, "post")) |-> Only(tr, "post")[i].tok]
Sleeps(tr)    == [i \in 1..Len(Only(tr, "sleep")) |-> Only(tr, "sleep")[i].n]
Rotations(tr) == Len(Only(tr, "rotate"))

(* --------------------------- pure helpers ----------------------------- *)

\* dict.get(key, default)
Get(d, k, default) == IF k \in DOMAIN d THEN d[k] ELSE default

\* The sum of a sequence of numbers.
RECURSIVE SumOf(_)
SumOf(q) == IF q = <<>> THEN 0 ELSE Head(q) + SumOf(Tail(q))

Max(a, b) == IF a >= b THEN a ELSE b

\* Variant: the cycler stops at the last token instead of starting over.
NextIndex_NoWrap(cur, toks) == IF cur = Len(toks) THEN cur ELSE cur + 1

\* next(self._token_cycler): itertools.cycle over api_tokens
NextIndex(cur, toks) == (cur % Len(toks)) + 1

\* _set_headers: f"Bearer {self._current_token}"
set_headers(tok) == <<"Bearer", tok>>

\* The rateLimit objects a response can carry: limit and cost are only logged.
\* resetAt stands for the instant its ISO-8601 text denotes.
RateLimitData(t) ==
    { [k \in {} |-> 0] } \cup
    { [remaining |-> r] : r \in RemainingValues } \cup
    { [resetAt |-> t + o] : o \in ResetOffsets } \cup
    { [remaining |-> r, resetAt |-> t + o] : r \in RemainingValues, o \in ResetOffsets }

\* Variant: the cycler yields the active token again.
cycle_token_Stuck(toks, cur) == <<Rotate(toks[cur], cur)>>

\* Variant: with no other token to switch to, the call waits instead.
cycle_token_WaitsWhenAlone(toks, cur) ==
    IF Len(toks) = 1
    THEN <<Sleep(SleepBuffer)>>
    ELSE <<Rotate(toks[NextIndex(cur, toks)], NextIndex(cur, toks))>>

\* _cycle_token: the event it causes on pool toks with the cycler at cur.
cycle_token(toks, cur) ==
    <<Rotate(toks[NextIndex(cur, toks)], NextIndex(cur, toks))>>

\* Variant: an exhausted quota pauses even when another token is available.
handle_rate_limit_PausesWhenExhausted(rate_limit_data, toks, cur, t) ==
    LET remaining      == Get(rate_limit_data, "remaining", 0)
        reset_time_utc == Get(rate_limit_data, "resetAt", t)
        sleep_duration == Max(0, reset_time_utc - t) + SleepBuffer
    IN  IF remaining = 0 THEN <<Sleep(sleep_duration)>>
        ELSE IF remaining < LowThreshold
        THEN (IF Len(toks) > 1 THEN cycle_token(toks, cur)
              ELSE <<Sleep(sleep_duration)>>)
        ELSE <<>>

\* Variant: the pause is not clamped at zero before the buffer is added.
handle_rate_limit_NoClamp(rate_limit_data, toks, cur, t) ==
    LET remaining      == Get(rate_limit_data, "remaining", 0)
        reset_time_utc == Get(rate_limit_data, "resetAt", t)
        sleep_duration == Max(0, (reset_time_utc - t) + SleepBuffer)
        act == IF Len(toks) > 1
               THEN cycle_token(toks, cur)
               ELSE <<Sleep(sleep_duration)>>
    IN  IF remaining < LowThreshold THEN act
        ELSE IF remaining = 0 THEN act
        ELSE <<>>

\* Variant: only an exhausted quota is acted on, a low one is not.
handle_rate_limit_OnlyExhausted(rate_limit_data, toks, cur, t) ==
    LET remaining      == Get(rate_limit_data, "remaining", 0)
        reset_time_utc == Get(rate_limit_data, "resetAt", t)
        sleep_duration == Max(0, reset_time_utc - t) + SleepBuffer
        act == IF Len(toks) > 1
               THEN cycle_token(toks, cur)
               ELSE <<Sleep(sleep_duration)>>
    IN  IF remaining = 0 THEN act ELSE <<>>

\* Variant: the threshold leaves out its upper boundary value, 99.
handle_rate_limit_Below99(rate_limit_data, toks, cur, t) ==
    LET remaining      == Get(rate_limit_data, "remaining", 0)
        reset_time_utc == Get(rate_limit_data, "resetAt", t)
        sleep_duration == Max(0, reset_time_utc - t) + SleepBuffer
        act == IF Len(toks) > 1
               THEN cycle_token(toks, cur)
               ELSE <<Sleep(sleep_duration)>>
    IN  IF remaining < LowThreshold - 1 THEN act
        ELSE IF remaining = 0 THEN act
        ELSE <<>>

\* Variant: the threshold takes in the value 100 itself.
handle_rate_limit_Inclusive(rate_limit_data, toks, cur, t) ==
    LET remaining      == Get(rate_limit_data, "remaining", 0)
        reset_time_utc == Get(rate_limit_data, "resetAt", t)
        sleep_duration == Max(0, reset_time_utc - t) + SleepBuffer
        act == IF Len(toks) > 1
               THEN cycle_token(toks, cur)
               ELSE <<Sleep(sleep_duration)>>
    IN  IF remaining <= LowThreshold THEN act
        ELSE IF remaining = 0 THEN act
        ELSE <<>>

\* Variant: a snapshot without `remaining` is read as one with ample quota.
handle_rate_limit_DefaultAmple(rate_limit_data, toks, cur, t) ==
    LET remaining      == Get(rate_limit_data, "remaining", LowThreshold)
        reset_time_utc == Get(rate_limit_data, "resetAt", t)
        sleep_duration == Max(0, reset_time_utc - t) + SleepBuffer
        act == IF Len(toks) > 1
               THEN cycle_token(toks, cur)
               ELSE <<Sleep(sleep_duration)>>
    IN  IF remaining < LowThreshold THEN act
        ELSE IF remaining = 0 THEN act
        ELSE <<>>

\* _handle_rate_limit: the events it causes on pool toks at clock t.
handle_rate_limit(rate_limit_data, toks, cur, t) ==
    LET remaining      == Get(rate_limit_data, "remaining", 0)
        reset_time_utc == Get(rate_limit_data, "resetAt", t)
        sleep_duration == Max(0, reset_time_utc - t) + SleepBuffer
        act == IF Len(toks) > 1
               THEN cycle_token(toks, cur)
               ELSE <<Sleep(sleep_duration)>>
    IN  IF remaining < LowThreshold THEN act
        ELSE IF remaining = 0 THEN act
        ELSE <<>>

(* ---------------------------- log records ---------------------------- *)

\* A record is a level and the parts its f-string is made of: literal text
\* or a str value, a number, text the remote service supplied, the messages
\* of an errors collection joined by "; ", or str(e) of an exception.
Record(level, text) == [level |-> level, text |-> text]
Str(s)       == [str |-> s]
Num(n)       == [num |-> n]
Remote(what) == [remote |-> what]
Joined(msgs) == [joined |-> msgs]
Exc(kind)    == [exc |-> kind]

\* logger.info(f"GitHubExtractor initialized with {len(self.api_tokens)} tokens.")
initialized_records(toks) ==
    <<Record("info", <<Str("GitHubExtractor initialized with "), Num(Len(toks)),
                       Str(" tokens.")>>)>>

\* Variant: the record of a switch names the token switched to.
cycle_token_records_NamesToken(toks, cur) ==
    <<Record("info", <<Str("Switched to API token "),
                       Str(toks[NextIndex(cur, toks)])>>)>>

\* _cycle_token: logger.info(f"Switched to a new API token.")
cycle_token_records(toks, cur) ==
    <<Record("info", <<Str("Switched to a new API token.")>>)>>

\* _handle_rate_limit: the records it writes on pool toks at clock t.
handle_rate_limit_records(rate_limit_data, toks, cur, t) ==
    LET limit          == Get(rate_limit_data, "limit", 0)
        cost           == Get(rate_limit_data, "cost", 0)
        remaining      == Get(rate_limit_data, "remaining", 0)
        reset_time_utc == Get(rate_limit_data, "resetAt", t)
        sleep_duration == Max(0, reset_time_utc - t) + SleepBuffer
        status == Record("info",
                    <<Str("API Rate Limit Status (Current Token): Cost="), Num(cost),
                      Str(", Remaining="), Num(remaining), Str("/"), Num(limit),
                      Str(", Reset at="), Num(reset_time_utc)>>)
        resumed == Record("info", <<Str("Resuming after rate limit sleep.")>>)
    IN  IF remaining < LowThreshold
        THEN (IF Len(toks) > 1
              THEN <<status,
                     Record("warning", <<Str("Current token's rate limit low ("),
                                         Num(remaining),
                                         Str("). Cycling to next token.")>>)>>
                   \o cycle_token_records(toks, cur)
              ELSE <<status,
                     Record("warning",
                        <<Str("Rate limit low and no other tokens available. Sleeping for "),
                          Num(sleep_duration), Str(" seconds until reset.")>>),
                     resumed>>)
        ELSE IF remaining = 0
        THEN (IF Len(toks) > 1
              THEN <<status,
                     Record("warning",
                        <<Str("Current token's rate limit exhausted. Cycling to next token.")>>)>>
                   \o cycle_token_records(toks, cur)
              ELSE <<status,
                     Record("warning",
                        <<Str("Rate limit exhausted and no other tokens available. Sleeping for "),
                          Num(sleep_duration), Str(" seconds until reset.")>>),
                     resumed>>)
        ELSE <<status>>

\* except HTTPError: the error record, and on 429 the warning and the switch.
http_error_records(status_code, toks, cur) ==
    <<Record("error", <<Str("HTTP error during GraphQL request (Status: "),
                        Num(status_code), Str("): "), Remote("e.response.text")>>)>>
    \o (IF status_code = TooManyRequests
        THEN <<Record("warning",
                  <<Str("HTTP 429 (Too Many Requests) received. Cycling token and retrying.")>>)>>
             \o cycle_token_records(toks, cur)
        ELSE <<>>)

\* except (ConnectionError, Timeout)
network_error_records(kind, att, rets) ==
    <<Record("error", <<Str("Network error during GraphQL request (Attempt "),
                        Num(att + 1), Str("/"), Num(rets + 1), Str("): "),
                        Exc(kind)>>)>>

\* except json.JSONDecodeError
json_error_records ==
    <<Record("error", <<Str("Failed to decode JSON response: "),
                        Exc("JSONDecodeError"), Str(". Response text: "),
                        Remote("response.text")>>)>>

\* except Exception
unexpected_error_records(kind) ==
    <<Record("error", <<Str("An unexpected error occurred during GraphQL request: "),
                        Exc(kind)>>)>>

\* if "errors" in data: the error record, and on a rate-limit message the
\* warning and the switch.
graphql_errors_records(msgs, rate_limited, toks, cur) ==
    <<Record("error", <<Str("GraphQL API returned errors: "), Joined(msgs)>>)>>
    \o (IF rate_limited
        THEN <<Record("warning",
                  <<Str("GraphQL rate limit error detected. Cycling token and retrying.")>>)>>
             \o cycle_token_records(toks, cur)
        ELSE <<>>)

(* ------------------------- applying events ---------------------------- *)

\* Variant: _cycle_token leaves the headers of the previous token in place.
Apply_StaleHeaders(base, evs) ==
    LET rots  == Only(evs, "rotate")
        last  == rots[Len(rots)]
        slept == Sleeps(evs)
        RECURSIVE Sum(_)
        Sum(q) == IF q = <<>> THEN 0 ELSE Head(q) + Sum(Tail(q))
    IN  /\ cursor' = IF rots = <<>> THEN cursor ELSE last.n
        /\ current_token' = IF rots = <<>> THEN current_token ELSE last.tok
        /\ headers' = headers
        /\ now' = now + Sum(slept)
        /\ trace' = base \o evs

\* The extractor and the clock after the events evs, appended to trace base.
Apply(base, evs) ==
    LET rots  == Only(evs, "rotate")
        last  == rots[Len(rots)]
        slept == Sleeps(evs)
        RECURSIVE Sum(_)
        Sum(q) == IF q = <<>> THEN 0 ELSE Head(q) + Sum(Tail(q))
    IN  /\ cursor' = IF rots = <<>> THEN cursor ELSE last.n
        /\ current_token' = IF rots = <<>> THEN current_token ELSE last.tok
        /\ headers' = IF rots = <<>> THEN headers ELSE set_headers(last.tok)
        /\ now' = now + Sum(slept)
        /\ trace' = base \o evs

(* ------------------------- error messages ----------------------------- *)

\* Text is a tuple of characters, so that lower() and `in` are computed.
UpperCase == <<"A","B","C","D","E","F","G","H","I","J","K","L","M",
               "N","O","P","Q","R","S","T","U","V","W","X","Y","Z">>
LowerCase == <<"a","b","c","d","e","f","g","h","i","j","k","l","m",
               "n","o","p","q","r","s","t","u","v","w","x","y","z">>

\* str.lower(), one character
LowerChar(c) ==
    IF \E i \in 1..Len(UpperCase) : UpperCase[i] = c
    THEN LowerCase[CHOOSE i \in 1..Len(UpperCase) : UpperCase[i] = c]
    ELSE c

\* Variant: the message is matched as it is, without lower().
Lower_Identity(msg) == msg

\* msg.lower()
Lower(msg) == [i \in 1..Len(msg) |-> LowerChar(msg[i])]

\* needle in text
Contains(needle, text) ==
    \E i \in 1..(Len(text) - Len(needle) + 1) :
        SubSeq(text, i, i + Len(needle) - 1) = needle

\* "rate limit exceeded"
RateLimitNeedle ==
    <<"r","a","t","e"," ","l","i","m","i","t"," ",
      "e","x","c","e","e","d","e","d">>

\* "Unknown error"
UnknownError == <<"U","n","k","n","o","w","n"," ","e","r","r","o","r">>

\* "API rate limit exceeded"
MsgApiRateLimit == <<"A","P","I"," ">> \o RateLimitNeedle
\* "RATE LIMIT EXCEEDED"
MsgUpperRateLimit ==
    <<"R","A","T","E"," ","L","I","M","I","T"," ",
      "E","X","C","E","E","D","E","D">>
\* "rate limit"
MsgRateLimitOnly == <<"r","a","t","e"," ","l","i","m","i","t">>

Messages == {MsgApiRateLimit, MsgUpperRateLimit, MsgRateLimitOnly}

\* One entry of "errors": a dict that may lack "message".
ErrorEntries == { [k \in {} |-> <<>>] } \cup { [message |-> m] : m \in Messages }

\* The "errors" collections a response can carry.
ErrorLists == UNION { [1..n -> ErrorEntries] : n \in 0..MaxErrors }

\* [err.get("message", "Unknown error") for err in data["errors"]]
error_messages(errors) ==
    [i \in 1..Len(errors) |-> Get(errors[i], "message", UnknownError)]

\* Variant: any message that mentions "rate limit" counts.
is_rate_limit_error_AnyRateLimit(msgs) ==
    \E i \in 1..Len(msgs) : Contains(SubSeq(RateLimitNeedle, 1, 10), Lower(msgs[i]))

\* any("rate limit exceeded" in msg.lower() for msg in error_messages)
is_rate_limit_error(msgs) ==
    \E i \in 1..Len(msgs) : Contains(RateLimitNeedle, Lower(msgs[i]))

(* --------------------------- response bodies -------------------------- *)

EmptyDict == [k \in {} |-> 0]

\* The "data" object of a response: repository is null or an object.
InnerData(t) ==
    { EmptyDict } \cup
    { [repository |-> r] : r \in {"None", "repo"} } \cup
    { [rateLimit |-> rl] : rl \in RateLimitData(t) } \cup
    { [rateLimit |-> rl, repository |-> "repo"] : rl \in RateLimitData(t) }

\* Decoded bodies without "errors".
SuccessBodies(t) == { EmptyDict } \cup { [data |-> d] : d \in InnerData(t) }

\* Decoded bodies with "errors"; some carry quota telemetry beside them.
ErrorBodies(t) ==
    { [errors |-> errs] : errs \in ErrorLists } \cup
    { [errors |-> errs, data |-> [rateLimit |-> [remaining |-> 0, resetAt |-> t]]] :
        errs \in { e \in ErrorLists : Len(e) <= 1 } }

\* What requests.post, raise_for_status() and response.json() give an attempt.
Resp(kind, status, body) == [kind |-> kind, status |-> status, body |-> body]
NoResponse == Resp("none", 0, EmptyDict)
Responses(t) ==
    { Resp(k, 0, EmptyDict) : k \in {"ConnectionError", "Timeout", "JSONDecodeError"} } \cup
    { Resp("HTTPError", st, EmptyDict) : st \in HttpStatuses } \cup
    { Resp("json", 200, b) : b \in ErrorBodies(t) \cup SuccessBodies(t) }

(* ------------------------------ results ------------------------------- *)

\* What a call returned (kind "data": the decoded body, held in data) or
\* raised (the exception's type, with the status or messages it carries).
Res(kind, status, msgs) == [kind |-> kind, status |-> status, messages |-> msgs]
NoResult == Res("none", 0, <<>>)

\* The frame of a _handle_rate_limit invocation.
NoCall == [called |-> FALSE, arg |-> EmptyDict, at |-> 0]
Frame(rl, t) == [called |-> TRUE, arg |-> rl, at |-> t]

(* --------------------------- construction ----------------------------- *)

\* Values of the attributes before __init__ has assigned them.
NoToken == ""
NoHeaders == <<>>

\* No fetch_repository_metadata frame; no value returned by it yet.
NoFetch == <<>>
NotFetched == "unset"

\* The tokens of a pool, and the record of a pool nothing was reported to.
TokensOf(toks) == { toks[i] : i \in 1..Len(toks) }
NoSnapshots(toks) == [t \in TokensOf(toks) |-> <<>>]

\* GitHubExtractor(api_url, api_tokens) is about to run: api_tokens is the
\* argument, a list of zero or more credentials.
\* Nothing in the module binds the name `payload` read at line 74; whether it
\* resolves is decided by the namespace the module runs in.
Init ==
    /\ payload_bound \in BOOLEAN
    /\ api_tokens \in { SubSeq(Credentials, 1, k) : k \in 0..MaxPool }
    /\ cursor = 0
    /\ current_token = NoToken
    /\ headers = NoHeaders
    /\ now = 0
    /\ pc = "new"
    /\ retries = 0
    /\ attempt = 0
    /\ response = NoResponse
    /\ data = EmptyDict
    /\ rl_call = NoCall
    /\ trace = <<>>
    /\ result = NoResult
    /\ fetch_args = NoFetch
    /\ fetched = NotFetched
    /\ log = <<>>
    /\ logged = <<>>
    /\ snapshots = NoSnapshots(api_tokens)
    /\ calls = <<>>
    /\ main_pc = "start"
    /\ repositories_to_process = <<>>
    /\ pbar_n = 0
    /\ failed_extraction_count = 0
    /\ batches = [t \in TableNames |-> <<>>]
    /\ successful_loads = [t \in TableNames |-> 0]
    /\ failed_transformation_count = 0
    /\ loads = <<>>
    /\ transformed = <<>>
    /\ conn = "None"
    /\ fetches = <<>>

\* Variant: an empty list is accepted and the failure is left to the first use.
Construct_Deferred ==
    /\ pc = "new"
    /\ pc' = "idle"
    /\ cursor' = IF api_tokens = <<>> THEN 0 ELSE 1
    /\ current_token' = IF api_tokens = <<>> THEN NoToken ELSE api_tokens[1]
    /\ headers' = IF api_tokens = <<>> THEN NoHeaders ELSE set_headers(api_tokens[1])
    /\ logged' = initialized_records(api_tokens)
    /\ UNCHANGED <<payload_bound, api_tokens, now, retries, attempt, response,
                   data, rl_call, trace, result, fetch_args, fetched, log,
                   snapshots, calls, pipeline>>

\* __init__: ValueError on an empty list, else the first token of the cycle
\* becomes the current one and the headers are set from it.
Construct ==
    /\ pc = "new"
    /\ IF api_tokens = <<>>
       THEN /\ pc' = "failed"
            /\ result' = Res("ValueError", 0, <<>>)
            /\ UNCHANGED <<cursor, current_token, headers, logged>>
       ELSE /\ pc' = "idle"
            /\ cursor' = 1
            /\ current_token' = api_tokens[1]
            /\ headers' = set_headers(api_tokens[1])
            /\ result' = result
            /\ logged' = initialized_records(api_tokens)
    /\ UNCHANGED <<payload_bound, api_tokens, now, retries, attempt, response,
                   data, rl_call, trace, fetch_args, fetched, log, snapshots,
                   calls, pipeline>>

(* --------------------------- direct calls ----------------------------- *)

\* The event that opens an operation: its name and the token active then.
Begin(op) == Ev(op, current_token, 0)

\* extractor._cycle_token()
CycleToken ==
    /\ pc = "idle"
    /\ Apply(<<>>, <<Begin("_cycle_token")>> \o cycle_token(api_tokens, cursor))
    /\ logged' = cycle_token_records(api_tokens, cursor)
    /\ pc' = "returned"
    /\ UNCHANGED <<outside, attempt, response, data, rl_call, result, snapshots>>

\* extractor._handle_rate_limit(rate_limit_data)
HandleRateLimit ==
    /\ pc = "idle"
    /\ \E rl \in RateLimitData(now) :
        /\ Apply(<<>>, <<Begin("_handle_rate_limit")>>
                       \o handle_rate_limit(rl, api_tokens, cursor, now))
        /\ rl_call' = Frame(rl, now)
        /\ logged' = handle_rate_limit_records(rl, api_tokens, cursor, now)
    /\ pc' = "returned"
    /\ UNCHANGED <<outside, attempt, response, data, result, snapshots>>

\* The operation is over: nothing is in progress, whoever called it has its
\* value or its exception.
Over ==
    \/ pc \in {"returned", "raised"} /\ fetch_args = NoFetch
    \/ pc = "fetched"

\* The frames of the operation are gone.
Forget ==
    /\ pc' = "idle"
    /\ retries' = 0
    /\ attempt' = 0
    /\ response' = NoResponse
    /\ data' = EmptyDict
    /\ rl_call' = NoCall
    /\ trace' = <<>>
    /\ result' = NoResult
    /\ fetch_args' = NoFetch
    /\ fetched' = NotFetched
    /\ log' = <<>>
    /\ logged' = <<>>
    /\ UNCHANGED <<payload_bound, api_tokens, cursor, current_token, headers>>

\* The caller goes on to an operation that is followed on its own: its clock
\* starts at 0 and nothing goes on record.
Resume ==
    /\ Over
    /\ Forget
    /\ now' = 0
    /\ UNCHANGED <<snapshots, calls, pipeline>>

\* What is kept on record of a completed operation.
Digest == [trace |-> trace, quota |-> rl_call, fetched |-> fetched]

\* The caller goes on to the next operation of a session: the clock runs on
\* and the completed operation goes on record (main.py calls
\* fetch_repository_metadata once per repository, one after the other).
NextCall ==
    /\ Over
    /\ Len(calls) < MaxCalls
    /\ Forget
    /\ calls' = Append(calls, Digest)
    /\ UNCHANGED <<now, snapshots, pipeline>>

(* ----------------------- _make_graphql_request ------------------------ *)

\* extractor._make_graphql_request(query, variables, retries=r)
StartRequest ==
    /\ pc = "idle"
    /\ \E r \in 0..DefaultRetries : retries' = r
    /\ pc' = "attempt"
    /\ attempt' = 0
    /\ trace' = <<Begin("_make_graphql_request")>>
    /\ logged' = <<>>
    /\ UNCHANGED <<payload_bound, api_tokens, cursor, current_token, headers,
                   now, response, data, rl_call, result, fetch_args, fetched,
                   log, snapshots, calls, pipeline>>

\* extractor.fetch_repository_metadata(owner, name), up to its call of
\* self._make_graphql_request(query, variables) with the default retries.
fetch_repository_metadata(owner_name) ==
    /\ pc = "idle"
    /\ fetch_args' = owner_name
    /\ retries' = DefaultRetries
    /\ pc' = "attempt"
    /\ attempt' = 0
    /\ trace' = <<Begin("_make_graphql_request")>>
    /\ logged' = <<>>
    /\ UNCHANGED <<payload_bound, api_tokens, cursor, current_token, headers,
                   now, response, data, rl_call, result, fetched, log,
                   snapshots, calls>>

\* A call of fetch_repository_metadata on its own.
FetchRepositoryMetadata ==
    /\ \E owner_name \in Repositories : fetch_repository_metadata(owner_name)
    /\ UNCHANGED pipeline

\* Variant: backoff of 2*attempt seconds instead of 2**attempt.
RetryOrRaise_LinearBackoff(evs, err) ==
    IF attempt < retries
    THEN /\ Apply(trace, evs \o <<Sleep(2 * attempt)>>)
         /\ attempt' = attempt + 1
         /\ pc' = "attempt"
         /\ result' = result
    ELSE /\ Apply(trace, evs)
         /\ attempt' = attempt
         /\ pc' = "raised"
         /\ result' = err

\* Variant: on exhaustion the loop is left and line 142's generic Exception
\* is what the caller sees.
RetryOrRaise_FallsThrough(evs, err) ==
    IF attempt < retries
    THEN /\ Apply(trace, evs \o <<Sleep(2^attempt)>>)
         /\ attempt' = attempt + 1
         /\ pc' = "attempt"
         /\ result' = result
    ELSE /\ Apply(trace, evs)
         /\ attempt' = attempt
         /\ pc' = "raised"
         /\ result' = Res("Exception", 0, <<>>)

\* Variant: the budget is tested with <=, which allows one attempt more.
RetryOrRaise_OneMore(evs, err) ==
    IF attempt <= retries
    THEN /\ Apply(trace, evs \o <<Sleep(2^attempt)>>)
         /\ attempt' = attempt + 1
         /\ pc' = "attempt"
         /\ result' = result
    ELSE /\ Apply(trace, evs)
         /\ attempt' = attempt
         /\ pc' = "raised"
         /\ result' = err

\* `continue` after time.sleep(2**attempt), or the raise that ends the call.
RetryOrRaise(evs, err) ==
    IF attempt < retries
    THEN /\ Apply(trace, evs \o <<Sleep(2^attempt)>>)
         /\ attempt' = attempt + 1
         /\ pc' = "attempt"
         /\ result' = result
    ELSE /\ Apply(trace, evs)
         /\ attempt' = attempt
         /\ pc' = "raised"
         /\ result' = err

\* A raise that ends the call whatever attempts remain.
Raise(evs, err) ==
    /\ Apply(trace, evs)
    /\ attempt' = attempt
    /\ pc' = "raised"
    /\ result' = err

\* Line 74 reads `payload`, which is unbound: NameError before the POST is
\* sent, caught by `except Exception` and re-raised.
AttemptNameError ==
    /\ pc = "attempt"
    /\ ~payload_bound
    /\ Raise(<<Outcome("NameError")>>, Res("NameError", 0, <<>>))
    /\ logged' = unexpected_error_records("NameError")
    /\ UNCHANGED <<outside, response, data, rl_call, snapshots>>

\* The rateLimit object a response carries, if any (at most one).
Telemetry(resp) ==
    IF /\ resp.kind = "json"
       /\ "data" \in DOMAIN resp.body
       /\ "rateLimit" \in DOMAIN resp.body.data
    THEN <<resp.body.data.rateLimit>>
    ELSE <<>>

\* requests.post(self.api_url, headers=self.headers, json=payload), then
\* raise_for_status() and response.json(): what they give is the remote's,
\* one of resps.
Send(resps) ==
    /\ pc = "attempt"
    /\ payload_bound
    /\ response' \in resps
    /\ trace' = Append(trace, Post(headers[2]))
    /\ logged' = <<>>
    /\ pc' = "sent"
    /\ UNCHANGED <<outside, cursor, current_token, headers, now, attempt, data,
                   rl_call, result>>

\* An attempt's POST, answered in any way the remote can answer.
SendRequest ==
    /\ Send(Responses(now))
    /\ UNCHANGED snapshots

\* Answers of a session: HTTP 429, or the repository with its quota.
SessionRemaining == {0, 5, 500}
SessionOffsets == {20}
SessionResponses(t) ==
    { Resp("HTTPError", TooManyRequests, EmptyDict) } \cup
    { Resp("json", 200, [data |-> [rateLimit |-> [remaining |-> r, resetAt |-> t + o],
                                   repository |-> "repo"]]) :
        r \in SessionRemaining, o \in SessionOffsets }

\* An attempt's POST in a session: the quota the answer reports goes on
\* record as the latest of the token that sent the request.
SessionSendRequest ==
    /\ Send(SessionResponses(now))
    /\ snapshots' = IF Telemetry(response') = <<>> THEN snapshots
                    ELSE [snapshots EXCEPT ![headers[2]] = Telemetry(response')]

\* Variant: a transport failure cycles the token like a 429 does.
HandleNetworkError_Rotates ==
    /\ pc = "sent"
    /\ response.kind \in {"ConnectionError", "Timeout"}
    /\ RetryOrRaise(<<Outcome(response.kind)>> \o cycle_token(api_tokens, cursor),
                    Res(response.kind, 0, <<>>))
    /\ logged' = network_error_records(response.kind, attempt, retries)
                    \o cycle_token_records(api_tokens, cursor)
    /\ response' = NoResponse
    /\ UNCHANGED <<outside, data, rl_call, snapshots>>

\* except (ConnectionError, Timeout)
HandleNetworkError ==
    /\ pc = "sent"
    /\ response.kind \in {"ConnectionError", "Timeout"}
    /\ RetryOrRaise(<<Outcome(response.kind)>>, Res(response.kind, 0, <<>>))
    /\ logged' = network_error_records(response.kind, attempt, retries)
    /\ response' = NoResponse
    /\ UNCHANGED <<outside, data, rl_call, snapshots>>

\* Variant: a 429 is handled like any other status, without cycling.
HandleHTTPError_NoRotate ==
    /\ pc = "sent"
    /\ response.kind = "HTTPError"
    /\ RetryOrRaise(<<Ev("HTTPError", "", response.status)>>,
                    Res("HTTPError", response.status, <<>>))
    /\ logged' = SubSeq(http_error_records(response.status, api_tokens, cursor), 1, 1)
    /\ response' = NoResponse
    /\ UNCHANGED <<outside, data, rl_call, snapshots>>

\* except HTTPError
HandleHTTPError ==
    /\ pc = "sent"
    /\ response.kind = "HTTPError"
    /\ LET status_code == response.status
       IN  RetryOrRaise(<<Ev("HTTPError", "", status_code)>>
                        \o (IF status_code = TooManyRequests
                            THEN cycle_token(api_tokens, cursor) ELSE <<>>),
                        Res("HTTPError", status_code, <<>>))
    /\ logged' = http_error_records(response.status, api_tokens, cursor)
    /\ response' = NoResponse
    /\ UNCHANGED <<outside, data, rl_call, snapshots>>

\* Variant: an undecodable body is retried like a transport failure.
HandleJSONDecodeError_Retries ==
    /\ pc = "sent"
    /\ response.kind = "JSONDecodeError"
    /\ RetryOrRaise(<<Outcome("JSONDecodeError")>>, Res("JSONDecodeError", 0, <<>>))
    /\ logged' = json_error_records
    /\ response' = NoResponse
    /\ UNCHANGED <<outside, data, rl_call, snapshots>>

\* except json.JSONDecodeError
HandleJSONDecodeError ==
    /\ pc = "sent"
    /\ response.kind = "JSONDecodeError"
    /\ Raise(<<Outcome("JSONDecodeError")>>, Res("JSONDecodeError", 0, <<>>))
    /\ logged' = json_error_records
    /\ response' = NoResponse
    /\ UNCHANGED <<outside, data, rl_call, snapshots>>

\* Variant: a rate-limit message cycles the token and raises at once.
HandleErrors_NeverRetries ==
    /\ pc = "sent"
    /\ response.kind = "json"
    /\ "errors" \in DOMAIN response.body
    /\ LET msgs == error_messages(response.body.errors)
           err  == Res("ValueError", 0, msgs)
       IN  IF is_rate_limit_error(msgs)
           THEN Raise(<<Outcome("errors")>> \o cycle_token(api_tokens, cursor), err)
           ELSE Raise(<<Outcome("errors")>>, err)
    /\ logged' = LET msgs == error_messages(response.body.errors)
                 IN  graphql_errors_records(msgs, is_rate_limit_error(msgs),
                                            api_tokens, cursor)
    /\ response' = NoResponse
    /\ UNCHANGED <<outside, data, rl_call, snapshots>>

\* Variant: a rate-limit message cycles the token only when a retry follows.
HandleErrors_RotatesOnRetryOnly ==
    /\ pc = "sent"
    /\ response.kind = "json"
    /\ "errors" \in DOMAIN response.body
    /\ LET msgs == error_messages(response.body.errors)
           err  == Res("ValueError", 0, msgs)
       IN  IF is_rate_limit_error(msgs) /\ attempt < retries
           THEN RetryOrRaise(<<Outcome("errors")>>
                             \o cycle_token(api_tokens, cursor), err)
           ELSE Raise(<<Outcome("errors")>>, err)
    /\ logged' = LET msgs == error_messages(response.body.errors)
                 IN  graphql_errors_records(msgs, is_rate_limit_error(msgs),
                                            api_tokens, cursor)
    /\ response' = NoResponse
    /\ UNCHANGED <<outside, data, rl_call, snapshots>>

\* Variant: after cycling on a rate-limit message the quota telemetry that
\* stands beside the errors is handled too.
HandleErrors_AlsoTracks ==
    /\ pc = "sent"
    /\ response.kind = "json"
    /\ "errors" \in DOMAIN response.body
    /\ LET msgs    == error_messages(response.body.errors)
           err     == Res("ValueError", 0, msgs)
           tracked == IF Telemetry(response) = <<>> THEN <<>>
                      ELSE handle_rate_limit(Telemetry(response)[1], api_tokens,
                                             NextIndex(cursor, api_tokens), now)
       IN  IF is_rate_limit_error(msgs)
           THEN RetryOrRaise(<<Outcome("errors")>>
                             \o cycle_token(api_tokens, cursor) \o tracked, err)
           ELSE Raise(<<Outcome("errors")>>, err)
    /\ logged' = LET msgs == error_messages(response.body.errors)
                 IN  graphql_errors_records(msgs, is_rate_limit_error(msgs),
                                            api_tokens, cursor)
    /\ response' = NoResponse
    /\ UNCHANGED <<outside, data, rl_call, snapshots>>

\* if "errors" in data
HandleErrors ==
    /\ pc = "sent"
    /\ response.kind = "json"
    /\ "errors" \in DOMAIN response.body
    /\ LET msgs == error_messages(response.body.errors)
           err  == Res("ValueError", 0, msgs)
       IN  IF is_rate_limit_error(msgs)
           THEN RetryOrRaise(<<Outcome("errors")>>
                             \o cycle_token(api_tokens, cursor), err)
           ELSE Raise(<<Outcome("errors")>>, err)
    /\ logged' = LET msgs == error_messages(response.body.errors)
                 IN  graphql_errors_records(msgs, is_rate_limit_error(msgs),
                                            api_tokens, cursor)
    /\ response' = NoResponse
    /\ UNCHANGED <<outside, data, rl_call, snapshots>>

\* Variant: the body is returned without its rateLimit being handled.
HandleReturn_Unhandled ==
    /\ pc = "sent"
    /\ response.kind = "json"
    /\ "errors" \notin DOMAIN response.body
    /\ Apply(trace, <<Outcome("ok")>>)
    /\ rl_call' = rl_call
    /\ logged' = <<>>
    /\ data' = response.body
    /\ result' = Res("data", 200, <<>>)
    /\ pc' = "returned"
    /\ response' = NoResponse
    /\ UNCHANGED <<outside, attempt, snapshots>>

\* No "errors": handle the body's rateLimit, if any, and return the body.
HandleReturn ==
    /\ pc = "sent"
    /\ response.kind = "json"
    /\ "errors" \notin DOMAIN response.body
    /\ LET inner == Get(response.body, "data", EmptyDict)
       IN  IF "rateLimit" \in DOMAIN inner
           THEN /\ Apply(trace, <<Outcome("ok")>>
                                \o handle_rate_limit(inner.rateLimit, api_tokens,
                                                     cursor, now))
                /\ rl_call' = Frame(inner.rateLimit, now)
                /\ logged' = handle_rate_limit_records(inner.rateLimit, api_tokens,
                                                       cursor, now)
           ELSE /\ Apply(trace, <<Outcome("ok")>>)
                /\ rl_call' = rl_call
                /\ logged' = <<>>
    /\ data' = response.body
    /\ result' = Res("data", 200, <<>>)
    /\ pc' = "returned"
    /\ response' = NoResponse
    /\ UNCHANGED <<outside, attempt, snapshots>>

(* ---------------------- fetch_repository_metadata --------------------- *)

\* The line logger.error writes at line 247.
FetchFailed(owner, name, err) ==
    [level |-> "error",
     text  |-> <<"Failed to fetch metadata for ", owner, "/", name, ": ", err>>]

\* Variant: the exception of the engine goes on to the caller.
FetchReturn_Propagates ==
    /\ pc \in {"returned", "raised"}
    /\ fetch_args # NoFetch
    /\ pc' = IF pc = "returned" THEN "fetched" ELSE "fetch_raised"
    /\ fetched' = IF pc = "returned"
                  THEN Get(Get(data, "data", EmptyDict), "repository", "None")
                  ELSE fetched
    /\ UNCHANGED <<payload_bound, api_tokens, cursor, current_token, headers,
                   now, retries, attempt, response, data, rl_call, trace,
                   result, fetch_args, log, logged, snapshots, calls, pipeline>>

\* Lines 242-248: response_data.get("data", {}).get("repository") of what
\* _make_graphql_request returned, or, on any exception, an error line and None.
FetchReturn ==
    /\ pc \in {"returned", "raised"}
    /\ fetch_args # NoFetch
    /\ IF pc = "returned"
       THEN /\ fetched' = Get(Get(data, "data", EmptyDict), "repository", "None")
            /\ log' = log
       ELSE /\ fetched' = "None"
            /\ log' = Append(log, FetchFailed(fetch_args[1], fetch_args[2], result))
    /\ pc' = "fetched"
    /\ logged' = <<>>
    /\ UNCHANGED <<payload_bound, api_tokens, cursor, current_token, headers,
                   now, retries, attempt, response, data, rl_call, trace,
                   result, fetch_args, snapshots, calls, pipeline>>

(* --------------------------- the loader -------------------------------- *)

\* self.conn of PostgreSQLDataLoader is written "None", "open" for an open
\* connection, or "closed" for one psycopg2 has found closed (conn.closed is
\* non-zero). NoError stands where no exception was raised.
NoError == "none"

\* What the database does during one method call: whether psycopg2.connect
\* succeeds if it is called, and how the statements and the commit end: they
\* pass, the server rejects them (IntegrityError, connection kept), the
\* connection is lost (OperationalError, connection closed), or an exception
\* that is no psycopg2.Error is raised (TypeError).
RunOutcomes == {"ok", "IntegrityError", "ConnectionLost", "TypeError"}
LoaderEnvs == [connects : BOOLEAN, run : RunOutcomes]
Healthy == [connects |-> TRUE, run |-> "ok"]

\* The exception an outcome raises, and the connection it leaves.
ErrorOfRun(run) == IF run = "ConnectionLost" THEN "OperationalError" ELSE run
ConnAfterRun(run) == IF run = "ConnectionLost" THEN "closed" ELSE "open"

\* connect(), lines 38-50: a connection that is None or closed is replaced;
\* when psycopg2.connect raises, self.conn is set to None and the error is
\* re-raised.
connect(c, env) ==
    IF c \in {"None", "closed"}
    THEN IF env.connects
         THEN [conn |-> "open", error |-> NoError]
         ELSE [conn |-> "None", error |-> "OperationalError"]
    ELSE [conn |-> c, error |-> NoError]

\* self.conn.rollback() in an except clause followed by `raise`: on None the
\* attribute lookup raises AttributeError, on a closed connection psycopg2
\* raises InterfaceError, and either one leaves the clause in place of the
\* error being handled; on an open connection the transaction is rolled
\* back and the error being handled is re-raised.
rollback_and_raise(c, error) ==
    CASE c = "None"   -> [propagated |-> "AttributeError", rolled_back |-> FALSE]
      [] c = "closed" -> [propagated |-> "InterfaceError", rolled_back |-> FALSE]
      [] OTHER        -> [propagated |-> error, rolled_back |-> TRUE]

\* The result of a load_* call: the connection it leaves, the error raised
\* inside its try block, the exception that reaches the caller, and whether
\* the rows were committed or the transaction rolled back.
LoadResult(c, error, propagated, committed, rolled_back) ==
    [conn |-> c, error |-> error, propagated |-> propagated,
     committed |-> committed, rolled_back |-> rolled_back]

\* The except clauses of a load_* method (lines 231-240): both call
\* self.conn.rollback(), log and re-raise.
load_failed(c, error) ==
    LET handled == rollback_and_raise(c, error)
    IN  LoadResult(c, error, handled.propagated, FALSE, handled.rolled_back)

\* load_project_data and its three siblings, lines 160-240, 242-285, 287-354
\* and 356-423: an empty list returns at once; otherwise connect(),
\* execute_values and commit run inside one try block.
load_data(c, rows, env) ==
    IF rows = <<>>
    THEN LoadResult(c, NoError, NoError, FALSE, FALSE)
    ELSE LET opened == connect(c, env)
         IN  IF opened.error # NoError
             THEN load_failed(opened.conn, opened.error)
             ELSE IF env.run = "ok"
                  THEN LoadResult("open", NoError, NoError, TRUE, FALSE)
                  ELSE load_failed(ConnAfterRun(env.run), ErrorOfRun(env.run))

\* create_tables(), lines 93-158: connect(), then each statement through
\* _execute_query (lines 61-91), which rolls back and re-raises a
\* psycopg2.Error; create_tables logs and re-raises. An exception that is no
\* psycopg2.Error passes through both untouched.
create_tables(c, env) ==
    LET opened == connect(c, env)
    IN  IF opened.error # NoError
        THEN [conn |-> opened.conn, propagated |-> opened.error]
        ELSE IF env.run = "ok"
             THEN [conn |-> "open", propagated |-> NoError]
             ELSE IF env.run = "TypeError"
                  THEN [conn |-> "open", propagated |-> "TypeError"]
                  ELSE [conn |-> ConnAfterRun(env.run),
                        propagated |->
                            rollback_and_raise(ConnAfterRun(env.run),
                                               ErrorOfRun(env.run)).propagated]

\* close(), lines 52-59: a connection is closed and forgotten.
close(c) == "None"

\* One load_* call as its caller sees it: the table, the rows passed, the
\* list position the call was made at (0: after the loop, or outside main),
\* whether it returned, and what it did.
Load(t, rows, at, done) ==
    [table |-> t, rows |-> rows, at |-> at, ok |-> done.propagated = NoError,
     conn |-> done.conn, error |-> done.error, propagated |-> done.propagated,
     committed |-> done.committed, rolled_back |-> done.rolled_back]

(* ------------------------------ main() -------------------------------- *)

\* Line 143: extractor = GitHubExtractor(GITHUB_GRAPHQL_API_URL,
\* GITHUB_API_TOKENS). config.py raises at import on an empty list, so main
\* runs with one token or more.
MainConstruct ==
    /\ main_pc = "start"
    /\ api_tokens # <<>>
    /\ Construct

\* Lines 144-162: the loader is built and create_tables() called
\* (sys.exit(1) when it raises), then load_repositories_from_csv; main
\* returns on an empty list.
LoadRepositories ==
    /\ main_pc = "start"
    /\ pc = "idle"
    /\ \E env \in LoaderEnvs, repositories \in RepositoryLists :
          LET created == create_tables(conn, env)
          IN  /\ conn' = created.conn
              /\ IF created.propagated # NoError
                 THEN /\ main_pc' = "exited"
                      /\ repositories_to_process' = repositories_to_process
                 ELSE /\ repositories_to_process' = repositories
                      /\ main_pc' = IF repositories = <<>> THEN "finished" ELSE "loop"
    /\ UNCHANGED <<payload_bound, api_tokens, cursor, current_token, headers,
                   now, pc, retries, attempt, response, data, rl_call, trace,
                   result, fetch_args, fetched, log, logged, snapshots, calls,
                   pbar_n, failed_extraction_count, fetches, loading>>

\* Variant: the next fetch is started while the previous call is between
\* two attempts.
MainFetch_WithoutWaiting ==
    /\ main_pc = "loop"
    /\ pc \in {"idle", "attempt"}
    /\ Len(fetches) < Len(repositories_to_process)
    /\ LET repo_info == repositories_to_process[Len(fetches) + 1]
       IN  /\ fetch_args' = repo_info
           /\ fetches' = Append(fetches, [repo |-> repo_info, at |-> now])
    /\ retries' = DefaultRetries
    /\ pc' = "attempt"
    /\ attempt' = 0
    /\ trace' = <<Begin("_make_graphql_request")>>
    /\ logged' = <<>>
    /\ UNCHANGED <<payload_bound, api_tokens, cursor, current_token, headers,
                   now, response, data, rl_call, result, fetched, log,
                   snapshots, calls, main_pc, repositories_to_process, pbar_n,
                   failed_extraction_count, loading, conn>>

\* Lines 183-188: the loop takes the next repo_info and calls
\* extractor.fetch_repository_metadata(owner, name).
MainFetch ==
    /\ main_pc = "loop"
    /\ pbar_n < Len(repositories_to_process)
    /\ LET repo_info == repositories_to_process[pbar_n + 1]
       IN  /\ fetch_repository_metadata(repo_info)
           /\ fetches' = Append(fetches, [repo |-> repo_info, at |-> now])
    /\ UNCHANGED <<main_pc, repositories_to_process, pbar_n,
                   failed_extraction_count, loading, conn>>

\* transformer.transform_all_data(raw_repo_data) for the repository at list
\* position p: "projects" is None (here the empty sequence) and the child
\* lists are empty when the core record does not transform; otherwise the
\* project row and, per child table, the rows found in the payload, each
\* carrying the project's id as project_id. A row is written as the
\* position of its project.
Rows(p, n) == [i \in 1..n |-> p]
Transformed(p, counts) ==
    [t \in TableNames |-> IF t = "projects" THEN <<p>> ELSE Rows(p, counts[t])]
NotTransformed == [t \in TableNames |-> <<>>]
\* The numbers of child rows a payload yields: none, or batch_size topics
\* with one build configuration and one dependency.
ChildCounts ==
    { [t \in ChildTables |-> 0],
      [t \in ChildTables |-> IF t = "topics" THEN batch_size ELSE 1] }
TransformedData(p) ==
    {NotTransformed} \cup { Transformed(p, counts) : counts \in ChildCounts }

\* What the database does during the load_* calls of one flush, for each
\* table that has rows: a call with no rows never reaches the database.
LoadOutcomes(envs, rows) == [{ t \in TableNames : rows[t] # <<>> } -> envs]

\* The load_* calls for the tables of `due` from position i of Tables on,
\* in order, each on the connection the one before left.
RECURSIVE Calls(_, _, _, _, _, _)
Calls(i, c, due, grown, envs, at) ==
    IF i > Len(Tables)
    THEN <<>>
    ELSE LET t == Tables[i]
         IN  IF t \notin due
             THEN Calls(i + 1, c, due, grown, envs, at)
             ELSE LET env  == IF t \in DOMAIN envs THEN envs[t] ELSE Healthy
                      done == load_data(c, grown[t], env)
                  IN  <<Load(t, grown[t], at, done)>> \o
                      Calls(i + 1, done.conn, due, grown, envs, at)

\* The connection a sequence of calls leaves.
ConnAfter(c, made) == IF made = <<>> THEN c ELSE made[Len(made)].conn

\* What the calls add to the counters of lines 168-171: the rows of the
\* calls that returned.
Counted(made) ==
    [t \in TableNames |->
        SumOf([i \in 1..Len(made) |->
                  IF made[i].table = t /\ made[i].ok
                  THEN Len(made[i].rows) ELSE 0])]

\* The tables whose call raised.
Raised(made) == { made[i].table : i \in { j \in 1..Len(made) : ~made[j].ok } }

\* Variant: a batch whose load raised stays in place for the next flush.
in_loop_flush_KeepsFailed(grown, is_last_repo, c, envs, at) ==
    LET due == { t \in TableNames : Len(grown[t]) >= batch_size \/ is_last_repo }
        made == Calls(1, c, due, grown, envs, at)
    IN  [ calls   |-> made,
          batches |-> [t \in TableNames |->
                          IF t \in due /\ t \notin Raised(made)
                          THEN <<>> ELSE grown[t]],
          counted |-> Counted(made) ]

\* Lines 205-251: each table in turn is loaded when its batch has reached
\* batch_size or the repository is the last one; the counter grows when the
\* call returns, and the batch is emptied whether it returned or raised.
in_loop_flush(grown, is_last_repo, c, envs, at) ==
    LET due == { t \in TableNames : Len(grown[t]) >= batch_size \/ is_last_repo }
        made == Calls(1, c, due, grown, envs, at)
    IN  [ calls   |-> made,
          batches |-> [t \in TableNames |-> IF t \in due THEN <<>> ELSE grown[t]],
          counted |-> Counted(made) ]

\* Variant: nothing is loaded after the loop.
final_flush_Skipped(left, c, envs) ==
    [ calls |-> <<>>, counted |-> Counted(<<>>) ]

\* Lines 269-304: after the loop each batch that still holds rows is loaded
\* once more; the counter grows when the call returns.
final_flush(left, c, envs) ==
    LET due == { t \in TableNames : left[t] # <<>> }
        made == Calls(1, c, due, left, envs, 0)
    IN  [ calls |-> made, counted |-> Counted(made) ]

\* Line 203: is_last_repo = pbar.n == len(repositories_to_process) - 1.
\* tqdm stores its count in pbar.n when it redraws the bar, which it does
\* at most once per refresh interval, so pbar.n is the number of completed
\* iterations or an earlier value of it: the comparison can hold at the
\* last position only, and need not hold there.
IsLastRepo(n, repositories) ==
    IF n = Len(repositories) - 1 THEN BOOLEAN ELSE {FALSE}

\* Variant: a failed extraction ends the loop.
MainIteration_AbortsOnFailure ==
    /\ main_pc = "loop"
    /\ pc = "fetched"
    /\ IF fetched # "None"
       THEN /\ failed_extraction_count' = failed_extraction_count
            /\ main_pc' = main_pc
       ELSE /\ failed_extraction_count' = failed_extraction_count + 1
            /\ main_pc' = "finished"
    /\ pbar_n' = pbar_n + 1
    /\ Forget
    /\ UNCHANGED <<now, snapshots, calls, repositories_to_process, fetches,
                   loading, conn>>

\* Lines 190-267, with the transformer's result drawn from `results` and
\* what the database does during the load_* calls from `envs`.
Iterate(results, envs) ==
    /\ main_pc = "loop"
    /\ pc = "fetched"
    /\ LET raw_repo_data == fetched
           p == pbar_n + 1
       IN  IF raw_repo_data # "None"
           THEN /\ failed_extraction_count' = failed_extraction_count
                /\ \E transformed_data \in results :
                      IF transformed_data["projects"] # <<>>
                      THEN \E is_last_repo \in IsLastRepo(pbar_n, repositories_to_process),
                              db \in LoadOutcomes(envs, [t \in TableNames |->
                                        batches[t] \o transformed_data[t]]) :
                             LET grown == [t \in TableNames |->
                                              batches[t] \o transformed_data[t]]
                                 flush == in_loop_flush(grown, is_last_repo, conn, db, p)
                             IN  /\ batches' = flush.batches
                                 /\ successful_loads' =
                                       [t \in TableNames |->
                                           successful_loads[t] + flush.counted[t]]
                                 /\ loads' = loads \o flush.calls
                                 /\ conn' = ConnAfter(conn, flush.calls)
                                 /\ transformed' = Append(transformed, p)
                                 /\ failed_transformation_count' =
                                       failed_transformation_count
                      ELSE /\ failed_transformation_count' =
                                 failed_transformation_count + 1
                           /\ UNCHANGED <<batches, successful_loads, loads,
                                          transformed, conn>>
           ELSE /\ failed_extraction_count' = failed_extraction_count + 1
                /\ UNCHANGED <<loading, conn>>
    /\ pbar_n' = pbar_n + 1
    /\ Forget
    /\ UNCHANGED <<now, snapshots, calls, main_pc, repositories_to_process,
                   fetches>>

\* Lines 269-312, with what the database does during the load_* calls drawn
\* from `envs`; line 306 closes the connection.
Finish(envs) ==
    /\ main_pc = "loop"
    /\ pc = "idle"
    /\ pbar_n = Len(repositories_to_process)
    /\ \E db \in LoadOutcomes(envs, batches) :
          LET flush == final_flush(batches, conn, db)
          IN  /\ successful_loads' =
                    [t \in TableNames |-> successful_loads[t] + flush.counted[t]]
              /\ loads' = loads \o flush.calls
              /\ conn' = close(ConnAfter(conn, flush.calls))
    /\ main_pc' = "finished"
    /\ UNCHANGED <<payload_bound, api_tokens, cursor, current_token, headers,
                   now, pc, retries, attempt, response, data, rl_call, trace,
                   result, fetch_args, fetched, log, logged, snapshots, calls,
                   repositories_to_process, pbar_n, failed_extraction_count,
                   fetches, batches, failed_transformation_count, transformed>>

\* Lines 190-267: the rest of the iteration once fetch_repository_metadata
\* has returned raw_repo_data. A truthy value goes to the transformer; a
\* transformed project and its child rows join the batches, which are then
\* flushed (lines 205-251); a project that does not transform adds one to
\* failed_transformation_count, a falsy raw_repo_data one to
\* failed_extraction_count. The frames of the call are gone and the loop
\* goes on. Here the transformer finds the project and no child rows, and
\* every load returns.
MainIteration ==
    /\ pbar_n < Len(repositories_to_process)
    /\ Iterate({Transformed(pbar_n + 1, [t \in ChildTables |-> 0])}, {Healthy})

\* Lines 269-312: the list is used up; the loop is left, the batches that
\* still hold rows are loaded (lines 269-304), the connection is closed and
\* main finishes.
MainFinish ==
    /\ main_pc = "loop"
    /\ Finish({Healthy})

\* The same two steps with a transformer that may reject the payload or find
\* child rows in it, and a database that may reject the rows or go away
\* (the connection in use is lost, a new one is refused).
PipelineEnvs ==
    { Healthy,
      [connects |-> TRUE, run |-> "IntegrityError"],
      [connects |-> FALSE, run |-> "ConnectionLost"] }
PipelineIteration ==
    /\ pbar_n < Len(repositories_to_process)
    /\ Iterate(TransformedData(pbar_n + 1), PipelineEnvs)

PipelineFinish ==
    /\ main_pc = "loop"
    /\ Finish(PipelineEnvs)

\* Answers of the remote service in that setting: a body whose repository
\* is null, or the repository with an ample quota.
PipelineResponses(t) ==
    { Resp("json", 200, [data |-> [repository |-> "None"]]),
      Resp("json", 200, [data |-> [rateLimit |-> [remaining |-> 500, resetAt |-> t + 20],
                                   repository |-> "repo"]]) }

PipelineSendRequest ==
    /\ Send(PipelineResponses(now))
    /\ UNCHANGED snapshots

\* Answers of the remote service while main runs: a timeout, a body whose
\* repository is null, or the repository with its quota.
MainRemaining == {5, 500}
MainOffsets == {20}
MainResponses(t) ==
    { Resp("Timeout", 0, EmptyDict),
      Resp("json", 200, [data |-> [repository |-> "None"]]) } \cup
    { Resp("json", 200, [data |-> [rateLimit |-> [remaining |-> r, resetAt |-> t + o],
                                   repository |-> "repo"]]) :
        r \in MainRemaining, o \in MainOffsets }

\* An attempt's POST while main runs.
MainSendRequest ==
    /\ Send(MainResponses(now))
    /\ UNCHANGED snapshots

(* ----------------------- the loader on its own ------------------------ *)

\* The lists of rows a load_* method is called with.
LoaderRows == { [i \in 1..n |-> i] : n \in 0..MaxRepos }

\* What no call on the loader touches.
beside_loader ==
    <<payload_bound, api_tokens, cursor, current_token, headers, now, pc,
      retries, attempt, response, data, rl_call, trace, result, fetch_args,
      fetched, log, logged, snapshots, calls, main_pc,
      repositories_to_process, pbar_n, failed_extraction_count, fetches,
      batches, successful_loads, failed_transformation_count, transformed>>

\* db_loader.create_tables().
CreateTables ==
    /\ main_pc = "start"
    /\ \E env \in LoaderEnvs : conn' = create_tables(conn, env).conn
    /\ UNCHANGED <<beside_loader, loads>>

\* One of load_project_data, load_topics_data, load_build_configs_data and
\* load_dependencies_data, called with a list of rows.
LoadData ==
    /\ main_pc = "start"
    /\ Len(loads) < MaxCalls
    /\ \E t \in TableNames, rows \in LoaderRows, env \in LoaderEnvs :
          LET done == load_data(conn, rows, env)
          IN  /\ loads' = Append(loads, Load(t, rows, 0, done))
              /\ conn' = done.conn
    /\ UNCHANGED beside_loader

\* db_loader.close().
Close ==
    /\ main_pc = "start"
    /\ conn # "None"
    /\ conn' = close(conn)
    /\ UNCHANGED <<beside_loader, loads>>

(* --------------------------- specifications --------------------------- *)

Next ==
    \/ Construct
    \/ CycleToken
    \/ HandleRateLimit
    \/ Resume
    \/ StartRequest
    \/ AttemptNameError
    \/ SendRequest
    \/ HandleNetworkError
    \/ HandleHTTPError
    \/ HandleJSONDecodeError
    \/ HandleErrors
    \/ HandleReturn

\* The methods of the extractor called directly, one operation at a time.
Spec == Init /\ [][Next]_vars

NextFetch ==
    \/ Construct
    \/ Resume
    \/ FetchRepositoryMetadata
    \/ AttemptNameError
    \/ SendRequest
    \/ HandleNetworkError
    \/ HandleHTTPError
    \/ HandleJSONDecodeError
    \/ HandleErrors
    \/ HandleReturn
    \/ FetchReturn

\* fetch_repository_metadata, one call at a time.
SpecFetch == Init /\ [][NextFetch]_vars

NextSession ==
    \/ Construct
    \/ CycleToken
    \/ FetchRepositoryMetadata
    \/ AttemptNameError
    \/ SessionSendRequest
    \/ HandleHTTPError
    \/ HandleReturn
    \/ FetchReturn
    \/ NextCall

\* A sequence of operations on one extractor.
SpecSession == Init /\ [][NextSession]_vars

NextMain ==
    \/ MainConstruct
    \/ LoadRepositories
    \/ MainFetch
    \/ AttemptNameError
    \/ MainSendRequest
    \/ HandleNetworkError
    \/ HandleReturn
    \/ FetchReturn
    \/ MainIteration
    \/ MainFinish

\* main(): the loop over the repositories of the CSV file.
SpecMain == Init /\ [][NextMain]_vars

NextPipeline ==
    \/ MainConstruct
    \/ LoadRepositories
    \/ MainFetch
    \/ AttemptNameError
    \/ PipelineSendRequest
    \/ HandleReturn
    \/ FetchReturn
    \/ PipelineIteration
    \/ PipelineFinish

\* main(): the batches it fills and the loads it makes.
SpecPipeline == Init /\ [][NextPipeline]_vars

NextLoader ==
    \/ CreateTables
    \/ LoadData
    \/ Close

\* The methods of the loader called directly, one after another.
SpecLoader == Init /\ [][NextLoader]_vars

(* ====================================================================== *)
(*                              Properties                                *)
(* ====================================================================== *)

\* The current operation is a logical call of _make_graphql_request.
IsRequest == trace # <<>> /\ trace[1].e = "_make_graphql_request"

\* How each attempt of the operation ended, in order.
AttemptKinds == {"NameError", "ConnectionError", "Timeout", "HTTPError",
                 "JSONDecodeError", "errors", "ok"}
Attempts(tr) == SelectSeq(tr, LAMBDA ev : ev.e \in AttemptKinds)

\* tok2 follows tok1 in the pool's cyclic order.
Follows(tok1, tok2) ==
    \E i \in 1..Len(api_tokens) :
        /\ api_tokens[i] = tok1
        /\ api_tokens[IF i = Len(api_tokens) THEN 1 ELSE i + 1] = tok2

\* a and b are the same character up to letter case.
SameLetter(a, b) ==
    \/ a = b
    \/ \E k \in 1..Len(UpperCase) :
          {a, b} = {UpperCase[k], LowerCase[k]}

\* text contains "rate limit exceeded", compared case-insensitively.
MentionsRateLimit(text) ==
    \E i \in 1..Len(text) :
        /\ i + Len(RateLimitNeedle) - 1 <= Len(text)
        /\ \A j \in 1..Len(RateLimitNeedle) :
              SameLetter(text[i + j - 1], RateLimitNeedle[j])

\* At least one message of the errors collection mentions the rate limit.
SignalsRateLimit(errors) ==
    \E i \in 1..Len(errors) :
        /\ "message" \in DOMAIN errors[i]
        /\ MentionsRateLimit(errors[i].message)

\* The messages an errors collection carries.
MessagesOf(errors) ==
    [i \in 1..Len(errors) |->
        IF "message" \in DOMAIN errors[i] THEN errors[i].message ELSE UnknownError]

\* The attempt in progress got a decoded body with an errors collection.
GotErrors == pc = "sent" /\ response.kind = "json" /\ "errors" \in DOMAIN response.body

\* What _handle_rate_limit did: the events after its invocation.
HandlerEvents ==
    LET marks == { i \in 1..Len(trace) : trace[i].e \in {"ok", "_handle_rate_limit"} }
        last  == CHOOSE i \in marks : \A j \in marks : j <= i
    IN  IF marks = {} THEN <<>> ELSE SubSeq(trace, last + 1, Len(trace))

(* ------------------------------- C1 ----------------------------------- *)

\* Transport failures replaced by one name, to compare the shape of a trace.
Shape(tr) ==
    [i \in 1..Len(tr) |->
        IF tr[i].e \in {"ConnectionError", "Timeout"} THEN "fail" ELSE tr[i].e]

OnlyTransportFailures ==
    /\ IsRequest
    /\ pc = "raised"
    /\ \A i \in 1..Len(Attempts(trace)) :
          Attempts(trace)[i].e \in {"ConnectionError", "Timeout"}

\* C1: a call with the default retries=3 whose attempts all end in a
\* connection error or timeout issues exactly 4 POSTs, sleeps 1s, 2s and 4s
\* between consecutive attempts and does not sleep after the last one.
C1_TransportBackoff ==
    (OnlyTransportFailures /\ retries = DefaultRetries) =>
        /\ Len(Posts(trace)) = 4
        /\ Sleeps(trace) = <<1, 2, 4>>
        /\ Shape(trace) = <<"_make_graphql_request",
                            "post", "fail", "sleep",
                            "post", "fail", "sleep",
                            "post", "fail", "sleep",
                            "post", "fail">>

C1_Witness ==
    /\ OnlyTransportFailures
    /\ retries = DefaultRetries
    /\ Kinds(Attempts(trace)) = <<"ConnectionError", "Timeout", "Timeout", "ConnectionError">>

(* ------------------------------- C2 ----------------------------------- *)

\* Every attempt the budget allows was made and the call failed.
Exhausted ==
    /\ IsRequest
    /\ pc = "raised"
    /\ Len(Attempts(trace)) = retries + 1

\* The exception type an attempt's outcome raises.
ErrorOf(kind) == IF kind = "errors" THEN "ValueError" ELSE kind

C3_HttpErrorEndsCall ==
    \A i \in 1..Len(trace) :
        (trace[i].e = "HTTPError" /\ trace[i].n # TooManyRequests) =>
            /\ i = Len(trace)
            /\ pc = "raised"
            /\ result.kind = "HTTPError"

(* ------------------------------- C4 ----------------------------------- *)

\* The second attempt of a call whose first attempt got HTTP 429 has a
\* decoded, error-free body in hand.
SuccessAfter429 ==
    /\ IsRequest
    /\ pc = "sent"
    /\ response.kind = "json"
    /\ "errors" \notin DOMAIN response.body
    /\ Len(Attempts(trace)) = 1
    /\ Attempts(trace)[1].e = "HTTPError"
    /\ Attempts(trace)[1].n = TooManyRequests

\* The body reports a quota below the threshold (absent remaining reads 0).
ReportsLowQuota(body) ==
    /\ "data" \in DOMAIN body
    /\ "rateLimit" \in DOMAIN body.data
    /\ ("remaining" \in DOMAIN body.data.rateLimit
            => body.data.rateLimit.remaining < LowThreshold)

\* C4 as stated: HTTP 429 on the first attempt and an error-free response on
\* the second: the credential is rotated exactly once during the call, the
\* second attempt uses the next credential, and its payload is returned.
C4_RotatesExactlyOnce ==
    [][SuccessAfter429 =>
          /\ pc' = "returned"
          /\ data' = response.body
          /\ Follows(Posts(trace)[1], Posts(trace)[2])
          /\ Rotations(trace') = 1]_vars

\* C4 amended: the credential is rotated exactly once before the second
\* attempt, which uses the next credential, and the second attempt's payload
\* is returned; the call rotates once more only when that payload's own
\* quota telemetry reports remaining < 100 and the pool has several tokens.
C4_RotatesOnceBeforeRetry ==
    [][SuccessAfter429 =>
          /\ pc' = "returned"
          /\ result'.kind = "data"
          /\ data' = response.body
          /\ Kinds(trace) = <<"_make_graphql_request", "post", "HTTPError",
                              "rotate", "sleep", "post">>
          /\ Follows(Posts(trace)[1], Posts(trace)[2])
          /\ Rotations(trace') =
                IF ReportsLowQuota(response.body) /\ Len(api_tokens) > 1
                THEN 2 ELSE 1]_vars

C4_Witness ==
    /\ IsRequest
    /\ pc = "returned"
    /\ Len(api_tokens) > 1
    /\ Kinds(trace) = <<"_make_graphql_request", "post", "HTTPError",
                        "rotate", "sleep", "post", "ok">>
    /\ trace[3].n = TooManyRequests
    /\ Posts(trace) = <<api_tokens[1], api_tokens[2]>>
    /\ "data" \in DOMAIN data
    /\ Get(data.data, "repository", "None") = "repo"

(* ------------------------------- C5 ----------------------------------- *)

\* The attempt in progress got HTTP 429.
Got429 ==
    /\ IsRequest
    /\ pc = "sent"
    /\ response.kind = "HTTPError"
    /\ response.status = TooManyRequests

\* C5: on HTTP 429 the credential is rotated, then, while attempts remain,
\* the engine sleeps 2^attempt seconds and retries; a call whose attempts all
\* got 429 ends after retries+1 attempts with the 429 error (an HTTPError
\* carrying status 429, the rate-limit error of the transport layer).
C5_RotateThenBackoffOn429 ==
    /\ [][Got429 =>
            LET next == Rotate(api_tokens[IF cursor = Len(api_tokens) THEN 1 ELSE cursor + 1],
                               IF cursor = Len(api_tokens) THEN 1 ELSE cursor + 1)
                got  == Ev("HTTPError", "", TooManyRequests)
            IN  /\ current_token' = next.tok
                /\ headers' = <<"Bearer", next.tok>>
                /\ IF attempt < retries
                   THEN /\ trace' = trace \o <<got, next, Sleep(2^attempt)>>
                        /\ now' = now + 2^attempt
                        /\ pc' = "attempt"
                        /\ attempt' = attempt + 1
                   ELSE /\ trace' = trace \o <<got, next>>
                        /\ now' = now
                        /\ pc' = "raised"
                        /\ result' = Res("HTTPError", TooManyRequests, <<>>)]_vars
    /\ [](( /\ IsRequest
            /\ pc = "raised"
            /\ \A i \in 1..Len(Attempts(trace)) :
                  /\ Attempts(trace)[i].e = "HTTPError"
                  /\ Attempts(trace)[i].n = TooManyRequests )
          => ( /\ Len(Posts(trace)) = retries + 1
               /\ Len(Attempts(trace)) = retries + 1
               /\ result = Res("HTTPError", TooManyRequests, <<>>) ))

C5_Witness ==
    /\ IsRequest
    /\ pc = "raised"
    /\ retries = DefaultRetries
    /\ Len(api_tokens) > 1
    /\ Len(Attempts(trace)) = DefaultRetries + 1
    /\ \A i \in 1..Len(Attempts(trace)) :
          Attempts(trace)[i].e = "HTTPError" /\ Attempts(trace)[i].n = TooManyRequests
    /\ Sleeps(trace) = <<1, 2, 4>>

(* ------------------------------- C6 ----------------------------------- *)

\* C6: a decoded body whose errors collection carries a rate-limit message:
\* with a retry left the credential is rotated, the engine sleeps 2^attempt
\* seconds and goes on to another attempt; with none left the call raises the
\* API error carrying the messages, and sends and sleeps no more.
C6_RateLimitMessageRetries ==
    [][(GotErrors /\ IsRequest /\ SignalsRateLimit(response.body.errors)) =>
          LET i    == IF cursor = Len(api_tokens) THEN 1 ELSE cursor + 1
              next == Rotate(api_tokens[i], i)
          IN  IF attempt < retries
              THEN /\ trace' = trace \o <<Outcome("errors"), next, Sleep(2^attempt)>>
                   /\ current_token' = api_tokens[i]
                   /\ now' = now + 2^attempt
                   /\ pc' = "attempt"
                   /\ attempt' = attempt + 1
                   /\ attempt' <= retries
              ELSE /\ pc' = "raised"
                   /\ result' = Res("ValueError", 0, MessagesOf(response.body.errors))
                   /\ Posts(trace') = Posts(trace)
                   /\ Sleeps(trace') = Sleeps(trace)
                   /\ now' = now]_vars

C6_Witness ==
    /\ IsRequest
    /\ pc = "raised"
    /\ retries = 1
    /\ Kinds(trace) = <<"_make_graphql_request", "post", "errors", "rotate",
                        "sleep", "post", "errors", "rotate">>
    /\ result = Res("ValueError", 0, <<MsgApiRateLimit>>)

(* ------------------------------- C7 ----------------------------------- *)

\* C7: a decoded body whose errors collection carries no rate-limit message
\* ends the call on that attempt with the API error: no retry, no sleep, no
\* rotation, and _handle_rate_limit is not invoked, whatever attempts remain
\* and whatever telemetry the body carries.
C7_OtherErrorsRaiseAtOnce ==
    [][(GotErrors /\ IsRequest /\ ~SignalsRateLimit(response.body.errors)) =>
          /\ pc' = "raised"
          /\ result' = Res("ValueError", 0, MessagesOf(response.body.errors))
          /\ trace' = Append(trace, Outcome("errors"))
          /\ attempt' = attempt
          /\ now' = now
          /\ cursor' = cursor
          /\ current_token' = current_token
          /\ headers' = headers
          /\ rl_call' = rl_call
          /\ ~rl_call'.called]_vars

C7_Witness ==
    /\ IsRequest
    /\ pc = "raised"
    /\ attempt < retries
    /\ result = Res("ValueError", 0, <<MsgRateLimitOnly, UnknownError>>)
    /\ trace[Len(trace)].e = "errors"

(* ------------------------------- C8 ----------------------------------- *)

\* C8: an errors collection is treated as a rate-limit condition (the token
\* is cycled) exactly when at least one of its messages contains "rate limit
\* exceeded", compared case-insensitively, wherever that message stands and
\* whatever other messages stand beside it.
C8_RateLimitClassification ==
    [][(GotErrors /\ IsRequest) =>
          ( (Rotations(trace') = Rotations(trace) + 1)
              <=> SignalsRateLimit(response.body.errors) )
          /\ Rotations(trace') \in {Rotations(trace), Rotations(trace) + 1}]_vars

C8_Witness ==
    /\ IsRequest
    /\ pc = "raised"
    /\ result = Res("ValueError", 0, <<MsgRateLimitOnly, MsgUpperRateLimit>>)
    /\ trace[Len(trace)].e = "rotate"

(* ------------------------------- C9 ----------------------------------- *)

\* _handle_rate_limit ran on a snapshot that reports remaining == 0.
HandledExhausted ==
    /\ rl_call.called
    /\ "remaining" \in DOMAIN rl_call.arg
    /\ rl_call.arg.remaining = 0

\* C9: on a snapshot with remaining == 0 and a pool of more than one token,
\* _handle_rate_limit cycles the token exactly once and does not sleep.
C9_ExhaustedRotates ==
    (HandledExhausted /\ Len(api_tokens) > 1) =>
        /\ Kinds(HandlerEvents) = <<"rotate">>
        /\ current_token = HandlerEvents[1].tok
        /\ now = rl_call.at

C9_Witness ==
    /\ HandledExhausted
    /\ Len(api_tokens) > 1
    /\ IsRequest
    /\ Rotations(trace) = 1

(* ------------------------------- C10 ---------------------------------- *)

\* C10: on a snapshot with remaining == 0 and a pool of exactly one token,
\* _handle_rate_limit sleeps max(0, resetAt - now) + 10 seconds, which is
\* exactly 10 when resetAt <= now and never less, and does not cycle.
C10_ExhaustedPauses ==
    (HandledExhausted /\ Len(api_tokens) = 1 /\ "resetAt" \in DOMAIN rl_call.arg) =>
        LET resetAt == rl_call.arg.resetAt
            wait    == IF resetAt > rl_call.at THEN resetAt - rl_call.at ELSE 0
        IN  /\ HandlerEvents = <<Sleep(wait + 10)>>
            /\ now = rl_call.at + wait + 10
            /\ now >= resetAt + 10
            /\ (resetAt <= rl_call.at => now = rl_call.at + 10)
            /\ Rotations(HandlerEvents) = 0

C10_Witness ==
    /\ HandledExhausted
    /\ Len(api_tokens) = 1
    /\ "resetAt" \in DOMAIN rl_call.arg
    /\ rl_call.arg.resetAt < rl_call.at
    /\ Sleeps(HandlerEvents) = <<10>>

(* ------------------------------- C11 ---------------------------------- *)

\* _handle_rate_limit ran on a snapshot that reports 0 < remaining < 100.
HandledLow ==
    /\ rl_call.called
    /\ "remaining" \in DOMAIN rl_call.arg
    /\ rl_call.arg.remaining > 0
    /\ rl_call.arg.remaining < 100

\* The token that was active when _handle_rate_limit was entered.
TokenAtHandler ==
    IF IsRequest THEN Posts(trace)[Len(Posts(trace))] ELSE trace[1].tok

\* C11: on a snapshot with 0 < remaining < 100 (99 included),
\* _handle_rate_limit cycles to the following token exactly once, without
\* sleeping, when the pool has more than one token; with a single token it
\* sleeps max(0, resetAt - now) + 10 seconds and keeps the token.
C11_LowQuotaRotatesOrPauses ==
    HandledLow =>
        IF Len(api_tokens) > 1
        THEN /\ Kinds(HandlerEvents) = <<"rotate">>
             /\ current_token = HandlerEvents[1].tok
             /\ Follows(TokenAtHandler, current_token)
             /\ headers = <<"Bearer", current_token>>
             /\ now = rl_call.at
        ELSE "resetAt" \in DOMAIN rl_call.arg =>
                LET resetAt == rl_call.arg.resetAt
                    wait    == IF resetAt > rl_call.at THEN resetAt - rl_call.at ELSE 0
                IN  /\ HandlerEvents = <<Sleep(wait + 10)>>
                    /\ now = rl_call.at + wait + 10
                    /\ current_token = TokenAtHandler

C11_Witness ==
    /\ HandledLow
    /\ rl_call.arg.remaining = 99
    /\ Len(api_tokens) = 1
    /\ "resetAt" \in DOMAIN rl_call.arg
    /\ rl_call.arg.resetAt > rl_call.at
    /\ IsRequest
    /\ Sleeps(HandlerEvents) = <<30>>

(* ------------------------------- C12 ---------------------------------- *)

\* This step is an invocation of _handle_rate_limit on a snapshot that
\* reports remaining >= 100.
HandlesAmple ==
    /\ ~rl_call.called
    /\ rl_call'.called
    /\ "remaining" \in DOMAIN rl_call'.arg
    /\ rl_call'.arg.remaining >= 100

\* C12: on a snapshot with remaining >= 100 (100 included),
\* _handle_rate_limit leaves the active token and the Authorization header
\* as they were and does not sleep, whatever the size of the pool.
C12_AmpleQuotaChangesNothing ==
    [][HandlesAmple =>
          /\ current_token' = current_token
          /\ headers' = headers
          /\ cursor' = cursor
          /\ now' = now
          /\ Rotations(trace') = Rotations(trace)
          /\ Sleeps(trace') = Sleeps(trace)]_vars

C12_Witness ==
    /\ rl_call.called
    /\ "remaining" \in DOMAIN rl_call.arg
    /\ rl_call.arg.remaining = 100
    /\ Len(api_tokens) = 1
    /\ HandlerEvents = <<>>
    /\ trace[1].e = "_handle_rate_limit"

(* ------------------------------- C13 ---------------------------------- *)

\* The attempt in progress got a decoded body that carries a rateLimit object.
CarriesTelemetry == pc = "sent" /\ Telemetry(response) # <<>>

\* C13 as stated: after every response that carries a rateLimit object, also
\* one that carries an errors collection beside it, _handle_rate_limit is
\* invoked on that object.
C13_TelemetryAlwaysEvaluated ==
    [][CarriesTelemetry =>
          /\ rl_call'.called
          /\ rl_call'.arg = Telemetry(response)[1]
          /\ rl_call'.at = now]_vars

(* ------------------------------- C14 ---------------------------------- *)

\* The attempt in progress got a decoded, error-free body with a rateLimit.
SuccessWithTelemetry ==
    /\ CarriesTelemetry
    /\ "errors" \notin DOMAIN response.body

\* The call ended by returning a body, and no request was sent after it.
NothingSentAfterReturn ==
    \A i \in 1..Len(trace) : \A j \in 1..Len(trace) :
        (trace[i].e = "ok" /\ i < j) => trace[j].e \in {"rotate", "sleep"}

\* C14: on an error-free response with a rateLimit object the decision of
\* _handle_rate_limit (cycle the token, or sleep) is carried out in the step
\* that returns; the call returns that response's body, and
\* fetch_repository_metadata its repository; no request of this call follows
\* the decision, which the next call is the first to feel.
C14_DecisionBeforeReturn ==
    /\ [][SuccessWithTelemetry =>
            LET rl        == response.body.data.rateLimit
                remaining == IF "remaining" \in DOMAIN rl THEN rl.remaining ELSE 0
                resetAt   == IF "resetAt" \in DOMAIN rl THEN rl.resetAt ELSE now
                wait      == IF resetAt > now THEN resetAt - now ELSE 0
                i         == IF cursor = Len(api_tokens) THEN 1 ELSE cursor + 1
            IN  /\ pc' = "returned"
                /\ result'.kind = "data"
                /\ data' = response.body
                /\ Posts(trace') = Posts(trace)
                /\ IF remaining >= 100
                   THEN /\ trace' = Append(trace, Outcome("ok"))
                        /\ current_token' = current_token
                        /\ headers' = headers
                        /\ now' = now
                   ELSE IF Len(api_tokens) > 1
                   THEN /\ trace' = trace \o <<Outcome("ok"), Rotate(api_tokens[i], i)>>
                        /\ current_token' = api_tokens[i]
                        /\ headers' = <<"Bearer", api_tokens[i]>>
                        /\ now' = now
                   ELSE /\ trace' = trace \o <<Outcome("ok"), Sleep(wait + 10)>>
                        /\ current_token' = current_token
                        /\ headers' = headers
                        /\ now' = now + wait + 10]_vars
    /\ []((pc \in {"returned", "fetched"} /\ IsRequest /\ result.kind = "data") =>
            /\ NothingSentAfterReturn
            /\ pc = "fetched" =>
                  /\ log = <<>>
                  /\ fetched = IF "data" \in DOMAIN data /\ "repository" \in DOMAIN data.data
                               THEN data.data.repository ELSE "None")

C14_Witness ==
    /\ pc = "fetched"
    /\ fetched = "repo"
    /\ Len(api_tokens) > 1
    /\ rl_call.called
    /\ Kinds(trace) = <<"_make_graphql_request", "post", "ok", "rotate">>
    /\ current_token # Posts(trace)[1]

(* ------------------------------- C15 ---------------------------------- *)

\* The operations of the session in order, the current one last.
Ops == Append(calls, Digest)

\* Operation d is a logical call that returned a body reporting remaining = r.
Succeeded(d, r) ==
    /\ d.trace # <<>>
    /\ d.trace[1].e = "_make_graphql_request"
    /\ \E i \in 1..Len(d.trace) : d.trace[i].e = "ok"
    /\ d.quota.called
    /\ "remaining" \in DOMAIN d.quota.arg
    /\ d.quota.arg.remaining = r

\* Operation d is such a call, answered on its first attempt, sent with tok.
SucceededAtOnce(d, tok, r) ==
    /\ Succeeded(d, r)
    /\ Posts(d.trace) = <<tok>>

\* Operation d is a logical call that has sent its first request with tok.
IssuedWith(d, tok) == Posts(d.trace) # <<>> => Posts(d.trace)[1] = tok

\* C15 as stated: pool [A, B] starting on A; call 1 succeeds reporting
\* remaining = 5: call 2 is issued with B; call 2 succeeds reporting
\* remaining = 500: call 3 is issued with B too.
C15_ScenarioAnySuccess ==
    (/\ Len(api_tokens) = 2
     /\ Ops[1].trace # <<>>
     /\ Ops[1].trace[1].tok = api_tokens[1]
     /\ Succeeded(Ops[1], 5)
     /\ Len(Ops) >= 2) =>
        /\ IssuedWith(Ops[2], api_tokens[2])
        /\ (Succeeded(Ops[2], 500) /\ Len(Ops) >= 3) =>
               IssuedWith(Ops[3], api_tokens[2])

\* C15 amended: pool [A, B] starting on A; call 1 is answered on its first
\* attempt, reporting remaining = 5: call 2 is issued with B; call 2 is
\* answered on its first attempt, reporting remaining = 500: the token is not
\* cycled and call 3 is issued with B too.
C15_ScenarioFirstAttempt ==
    (/\ Len(api_tokens) = 2
     /\ Ops[1].trace # <<>>
     /\ Ops[1].trace[1].tok = api_tokens[1]
     /\ SucceededAtOnce(Ops[1], api_tokens[1], 5)
     /\ Len(Ops) >= 2) =>
        /\ Rotations(Ops[1].trace) = 1
        /\ Ops[2].trace # <<>> => Ops[2].trace[1].tok = api_tokens[2]
        /\ IssuedWith(Ops[2], api_tokens[2])
        /\ (SucceededAtOnce(Ops[2], api_tokens[2], 500) /\ Len(Ops) >= 3) =>
               /\ Rotations(Ops[2].trace) = 0
               /\ Ops[3].trace # <<>> => Ops[3].trace[1].tok = api_tokens[2]
               /\ IssuedWith(Ops[3], api_tokens[2])

C15_Witness ==
    /\ api_tokens = <<"tokA", "tokB">>
    /\ Len(calls) = 2
    /\ SucceededAtOnce(calls[1], "tokA", 5)
    /\ SucceededAtOnce(calls[2], "tokB", 500)
    /\ Posts(trace) = <<"tokB">>

(* ------------------------------- C16 ---------------------------------- *)

\* The quota last reported to tok was exhausted and has not been reset yet.
ExhaustedNow(tok) ==
    /\ snapshots[tok] # <<>>
    /\ "remaining" \in DOMAIN snapshots[tok][1]
    /\ snapshots[tok][1].remaining = 0
    /\ "resetAt" \in DOMAIN snapshots[tok][1]
    /\ snapshots[tok][1].resetAt > now

\* This step sends a request.
Sends == pc = "attempt" /\ pc' = "sent"

\* Every operation of the session so far is a logical call.
OnlyLogicalCalls ==
    \A i \in 1..Len(Ops) :
        Ops[i].trace # <<>> => Ops[i].trace[1].e = "_make_graphql_request"

\* C16 as stated: in a session of logical calls no request is sent with a
\* token whose latest quota snapshot reported remaining == 0 before that
\* snapshot's resetAt has passed, whatever the size of the pool and whatever
\* calls came before.
C16_NeverSendsExhausted ==
    [][(Sends /\ OnlyLogicalCalls) => ~ExhaustedNow(headers[2])]_vars

(* ------------------------------- C17 ---------------------------------- *)

\* All the events of the session, in order.
RECURSIVE Flat(_)
Flat(ops) == IF ops = <<>> THEN <<>> ELSE Head(ops).trace \o Flat(Tail(ops))

\* The tokens that were active in the session, in order: the one the first
\* operation began with, then the one each rotation selected.
ActiveTokens ==
    LET evs == Flat(Ops)
        rot == Only(evs, "rotate")
    IN  IF evs = <<>> THEN <<>>
        ELSE <<evs[1].tok>> \o [i \in 1..Len(rot) |-> rot[i].tok]

\* The position in the pool of token tok.
PositionOf(tok) == CHOOSE i \in 1..Len(api_tokens) : api_tokens[i] = tok

\* C17: rotation is cyclic in the order of the pool: each rotation selects
\* the token after the active one, the first after the last, and K
\* rotations in a row on a pool of K tokens come back to the token that was
\* active before them; between operations the active token stays.
C17_RotationIsCyclic ==
    LET toks == ActiveTokens
        K    == Len(api_tokens)
    IN  /\ \A i \in 1..(Len(toks) - 1) :
              /\ toks[i] \in TokensOf(api_tokens)
              /\ PositionOf(toks[i + 1]) =
                    IF PositionOf(toks[i]) = K THEN 1 ELSE PositionOf(toks[i]) + 1
        /\ \A i \in 1..(Len(toks) - K) : toks[i + K] = toks[i]
        /\ toks # <<>> => toks[Len(toks)] = current_token
        /\ \A i \in 2..Len(Ops) :
              Ops[i].trace # <<>> =>
                Ops[i].trace[1].tok =
                    ActiveTokens[1 + Rotations(Flat(SubSeq(Ops, 1, i - 1)))]

C17_Witness ==
    /\ Len(api_tokens) = MaxPool
    /\ Len(ActiveTokens) > Len(api_tokens)
    /\ \A i \in 1..Len(calls) : Kinds(calls[i].trace) = <<"_cycle_token", "rotate">>
    /\ Len(calls) + Rotations(trace) = Len(api_tokens)
    /\ current_token = api_tokens[1]
    /\ pc = "returned"

(* ------------------------------- C18 ---------------------------------- *)

\* C18: GitHubExtractor(api_url, []) raises at construction (ValueError, the
\* configuration error of the code): no token is selected, no headers are
\* set and no operation is ever possible; with one token or more the
\* construction succeeds and the first token is the active one.
C18_EmptyPoolFailsConstruction ==
    /\ []( /\ pc = "failed" =>
                /\ api_tokens = <<>>
                /\ result.kind = "ValueError"
                /\ current_token = ""
                /\ headers = <<>>
                /\ trace = <<>>
           /\ api_tokens = <<>> => pc \in {"new", "failed"} )
    /\ [][pc = "new" =>
            IF api_tokens = <<>>
            THEN pc' = "failed"
            ELSE /\ pc' = "idle"
                 /\ current_token' = api_tokens[1]
                 /\ headers' = <<"Bearer", api_tokens[1]>>
                 /\ trace' = <<>>]_vars

C18_Witness ==
    /\ pc = "failed"
    /\ api_tokens = <<>>
    /\ result.kind = "ValueError"

(* ------------------------------- C19 ---------------------------------- *)

\* The extractor exists: __init__ has returned.
Constructed == pc \notin {"new", "failed"}

\* C19: in every state of a constructed extractor the active token is a
\* token of the pool, the one the cycler stands on, and the Authorization
\* header is "Bearer " followed by it; every request is sent with the token
\* that is active when it is sent.
C19_HeaderMatchesActiveToken ==
    /\ [](Constructed =>
            /\ current_token \in TokensOf(api_tokens)
            /\ cursor \in 1..Len(api_tokens)
            /\ current_token = api_tokens[cursor]
            /\ headers = <<"Bearer", current_token>>)
    /\ [][Sends =>
            /\ trace' = Append(trace, Post(current_token))
            /\ current_token' = current_token
            /\ headers' = headers]_vars

C19_Witness ==
    /\ pc = "sent"
    /\ Len(api_tokens) > 1
    /\ Rotations(trace) = 3
    /\ Posts(trace)[Len(Posts(trace))] = current_token
    /\ headers = <<"Bearer", current_token>>
    /\ current_token = api_tokens[2]

(* ------------------------------- C20 ---------------------------------- *)

\* _make_graphql_request has raised inside fetch_repository_metadata.
EngineRaised == pc = "raised" /\ fetch_args # <<>>

\* The error line names the repository as owner/name.
NamesRepository(line, owner, name) ==
    /\ line.level = "error"
    /\ \E i \in 1..(Len(line.text) - 2) :
          /\ line.text[i] = owner
          /\ line.text[i + 1] = "/"
          /\ line.text[i + 2] = name

\* C20: fetch_repository_metadata never raises: whatever
\* _make_graphql_request raised (a network, HTTP, API, decoding or
\* unexpected error), it logs one error line naming owner/name and returns
\* None.
C20_FetchNeverRaises ==
    /\ [][EngineRaised =>
            /\ pc' = "fetched"
            /\ fetched' = "None"
            /\ Len(log') = Len(log) + 1
            /\ NamesRepository(log'[Len(log')], fetch_args[1], fetch_args[2])
            /\ result' = result]_vars
    /\ []((pc = "fetched" /\ result.kind # "data") =>
            /\ result.kind \in {"NameError", "ConnectionError", "Timeout",
                                "HTTPError", "JSONDecodeError", "ValueError"}
            /\ fetched = "None"
            /\ Len(log) = 1
            /\ NamesRepository(log[1], "octocat", "Hello-World"))
    /\ [](fetch_args # <<>> => pc \in {"attempt", "sent", "returned", "raised", "fetched"})

C20_Witness ==
    /\ pc = "fetched"
    /\ fetch_args = <<"octocat", "Hello-World">>
    /\ result = Res("HTTPError", 404, <<>>)
    /\ fetched = "None"
    /\ Len(log) = 1

(* ------------------------------- C21 ---------------------------------- *)

\* The repositories main has called fetch_repository_metadata for, in order.
FetchedRepos == [i \in 1..Len(fetches) |-> fetches[i].repo]

\* fetch_repository_metadata has returned to main's loop.
BackInLoop == main_pc = "loop" /\ pc = "fetched"

\* C21: a failed extraction does not abort the loop: the repositories of the
\* loaded list are fetched once each, in list order, whatever the earlier
\* fetches returned; main finishes only when every one of them was fetched;
\* a None result, and nothing else, adds one to failed_extraction_count.
C21_FailedExtractionDoesNotAbort ==
    /\ [](main_pc \in {"loop", "finished"} =>
            /\ FetchedRepos = SubSeq(repositories_to_process, 1, Len(fetches))
            /\ Len(fetches) = pbar_n + (IF fetch_args # <<>> THEN 1 ELSE 0)
            /\ failed_extraction_count <= pbar_n
            /\ main_pc = "finished" =>
                  /\ pbar_n = Len(repositories_to_process)
                  /\ Len(fetches) = Len(repositories_to_process))
    /\ [][BackInLoop =>
            /\ main_pc' = "loop"
            /\ pbar_n' = pbar_n + 1
            /\ fetches' = fetches
            /\ failed_extraction_count' =
                  failed_extraction_count + (IF fetched = "None" THEN 1 ELSE 0)]_vars
    /\ [][failed_extraction_count' # failed_extraction_count =>
            BackInLoop /\ fetched = "None"]_vars
    /\ [][(main_pc = "loop" /\ pc = "idle" /\ pbar_n < Len(repositories_to_process)) =>
            /\ main_pc' = "loop"
            /\ fetch_args' = repositories_to_process[pbar_n + 1]
            /\ Len(fetches') = Len(fetches) + 1]_vars

C21_Witness ==
    /\ BackInLoop
    /\ Len(repositories_to_process) = 2
    /\ pbar_n = 1
    /\ failed_extraction_count = 1
    /\ FetchedRepos = repositories_to_process
    /\ fetched = "repo"

(* ------------------------------- C22 ---------------------------------- *)

\* The logical call has resolved: it returned a body or raised.
Resolved == IsRequest /\ pc \in {"returned", "raised"}

\* C22: a logical call makes at most retries+1 attempts (4 with the default
\* retries=3), whatever each attempt's outcome: every attempt either
\* resolves the call or leads to the next one while the budget lasts, and
\* the last one the budget allows resolves it; a resolved call attempts,
\* sleeps and rotates no more.
C22_ResolvesWithinBudget ==
    /\ [](IsRequest =>
            /\ attempt <= retries
            /\ Len(Attempts(trace)) <= retries + 1
            /\ Len(Posts(trace)) <= retries + 1
            /\ retries = 3 => Len(Attempts(trace)) <= 4
            /\ pc \in {"attempt", "sent"} => Len(Attempts(trace)) = attempt
            /\ Len(Attempts(trace)) = retries + 1 => Resolved
            /\ Resolved => result.kind # "none")
    /\ [][(IsRequest /\ pc = "attempt") => pc' \in {"sent", "raised"}]_vars
    /\ [][(IsRequest /\ pc = "sent") =>
            \/ pc' \in {"returned", "raised"}
            \/ /\ pc' = "attempt"
               /\ attempt' = attempt + 1
               /\ attempt' <= retries
               /\ Len(Attempts(trace')) = attempt']_vars
    /\ [][Resolved =>
            /\ trace' = <<>>
            /\ pc' = "idle"
            /\ cursor' = cursor
            /\ current_token' = current_token
            /\ headers' = headers]_vars

C22_Witness ==
    /\ Resolved
    /\ pc = "returned"
    /\ retries = DefaultRetries
    /\ Kinds(Attempts(trace)) = <<"Timeout", "HTTPError", "errors", "ok">>
    /\ Len(Posts(trace)) = 4

(* ------------------------------- C23 ---------------------------------- *)

\* C23 as stated: every attempt of a logical call sends a POST that carries
\* the call's query and variables under the bearer header of the active
\* token, so that fetch_repository_metadata(owner, name) is answered for
\* that repository: no attempt ends before its request is sent.
C23_EveryAttemptPosts ==
    [][(pc = "attempt" /\ fetch_args # <<>>) =>
          /\ pc' = "sent"
          /\ trace' = Append(trace, Post(current_token))
          /\ headers = <<"Bearer", current_token>>
          /\ result'.kind # "NameError"]_vars

(* ------------------------------- C24 ---------------------------------- *)

\* The seconds a trace spent in time.sleep.
Slept(tr) == SumOf(Sleeps(tr))

\* This step starts a fetch.
StartsFetch == Len(fetches') > Len(fetches)

\* C24: in main the calls on the extractor are strictly sequential: a fetch
\* starts only when no call is in progress and every earlier fetch has
\* returned and been taken up by the loop; while a call is in progress the
\* clock has advanced by exactly that call's own backoff sleeps and
\* rate-limit pauses; and every request, rotation and sleep belongs to the
\* one call in progress, during which the loop does not move.
C24_CallsAreSequential ==
    /\ [][StartsFetch =>
            /\ pc = "idle"
            /\ fetch_args = <<>>
            /\ trace = <<>>
            /\ response.kind = "none"
            /\ Len(fetches) = pbar_n
            /\ Len(fetches') = Len(fetches) + 1
            /\ fetches'[Len(fetches')].at = now
            /\ now' = now
            /\ current_token' = current_token]_vars
    /\ []((main_pc = "loop" /\ fetch_args # <<>>) =>
            now = fetches[Len(fetches)].at + Slept(trace))
    /\ [](\A i \in 1..(Len(fetches) - 1) : fetches[i].at <= fetches[i + 1].at)
    /\ [][(/\ main_pc = "loop"
           /\ \/ current_token' # current_token
              \/ now' # now
              \/ Len(Posts(trace')) > Len(Posts(trace))) =>
            /\ fetch_args # <<>>
            /\ fetch_args' = fetch_args
            /\ pbar_n' = pbar_n
            /\ fetches' = fetches]_vars

C24_Witness ==
    /\ main_pc = "loop"
    /\ Len(fetches) = 2
    /\ fetches[1].at = 0
    /\ fetches[2].at = 31
    /\ pc = "sent"
    /\ Len(api_tokens) = 1

(* ------------------------------- C25 ---------------------------------- *)

\* Record rec carries the string tok as one of its parts.
Discloses(rec, tok) ==
    \E i \in 1..Len(rec.text) :
        /\ "str" \in DOMAIN rec.text[i]
        /\ rec.text[i].str = tok

\* The record _cycle_token writes.
SwitchRecord == [level |-> "info", text |-> <<[str |-> "Switched to a new API token."]>>]

GotTransportFailure ==
    /\ IsRequest
    /\ pc = "sent"
    /\ response.kind \in {"ConnectionError", "Timeout"}

\* Every attempt the call has completed failed at transport level.
TransportOnly ==
    /\ IsRequest
    /\ Attempts(trace) # <<>>
    /\ \A i \in 1..Len(Attempts(trace)) :
          Attempts(trace)[i].e \in {"ConnectionError", "Timeout"}

\* C26: a connection error or timeout never cycles the token: the handling
\* of one leaves the token, the cycler and the Authorization header as they
\* are, and a call whose attempts so far all failed at transport level has
\* the token and header it began with, and has sent every request with it.
C26_TransportFailureKeepsToken ==
    /\ [][GotTransportFailure =>
            /\ cursor' = cursor
            /\ current_token' = current_token
            /\ headers' = headers
            /\ Rotations(trace') = Rotations(trace)]_vars
    /\ [](TransportOnly =>
            /\ Rotations(trace) = 0
            /\ current_token = trace[1].tok
            /\ headers = <<"Bearer", trace[1].tok>>
            /\ \A i \in 1..Len(Posts(trace)) : Posts(trace)[i] = trace[1].tok)

C26_Witness ==
    /\ TransportOnly
    /\ pc = "raised"
    /\ Len(api_tokens) = 2
    /\ retries = 2
    /\ Posts(trace) = <<"tokB", "tokB", "tokB">>
    /\ current_token = "tokB"
    /\ headers = <<"Bearer", "tokB">>

(* ------------------------------- C27 ---------------------------------- *)

\* The attempt in progress got a rate-limit signal: HTTP 429, or a decoded
\* body whose errors carry a rate-limit message.
GotRateLimitSignal ==
    \/ Got429
    \/ GotErrors /\ IsRequest /\ SignalsRateLimit(response.body.errors)

\* The call raised the error of a rate-limit signal.
FailedOnRateLimit ==
    /\ IsRequest
    /\ pc = "raised"
    /\ \/ result.kind = "HTTPError" /\ result.status = TooManyRequests
       \/ /\ result.kind = "ValueError"
          /\ \E i \in 1..Len(result.messages) : MentionsRateLimit(result.messages[i])

\* C27: when the last attempt the budget allows gets a rate-limit signal, the
\* token is cycled before the error is raised: the call ends with the
\* rotation as its last act, and the active token and the Authorization
\* header are those of the successor of the token that sent the last request.
C27_FinalRateLimitStillRotates ==
    /\ [][(GotRateLimitSignal /\ attempt = retries) =>
            /\ pc' = "raised"
            /\ Rotations(trace') = Rotations(trace) + 1
            /\ Follows(current_token, current_token')
            /\ headers' = <<"Bearer", current_token'>>
            /\ Sleeps(trace') = Sleeps(trace)]_vars
    /\ [](FailedOnRateLimit =>
            /\ Len(Attempts(trace)) = retries + 1
            /\ trace[Len(trace)].e = "rotate"
            /\ trace[Len(trace) - 1].e \in {"HTTPError", "errors"}
            /\ current_token = trace[Len(trace)].tok
            /\ Follows(Posts(trace)[Len(Posts(trace))], current_token)
            /\ headers = <<"Bearer", current_token>>)

C27_Witness ==
    /\ FailedOnRateLimit
    /\ result.kind = "ValueError"
    /\ retries = 2
    /\ Len(api_tokens) = 2
    /\ Kinds(Attempts(trace)) = <<"Timeout", "HTTPError", "errors">>
    /\ Posts(trace) = <<"tokA", "tokA", "tokB">>
    /\ current_token = "tokA"

(* ------------------------------- C28 ---------------------------------- *)

\* The attempt in progress got an error-free body whose quota telemetry makes
\* the tracker cycle the token.
TrackerRotates ==
    /\ IsRequest
    /\ pc = "sent"
    /\ response.kind = "json"
    /\ "errors" \notin DOMAIN response.body
    /\ ReportsLowQuota(response.body)
    /\ Len(api_tokens) > 1

\* C28: an attempt cycles the token at most once: once when it got a
\* rate-limit signal (HTTP 429 or a rate-limit message, whatever telemetry
\* stands beside it), once when it succeeded and the tracker decided to
\* cycle, never twice and never otherwise; sending does not cycle; so a
\* logical call cycles at most once per attempt and retries+1 times in all.
C28_OneRotationPerAttempt ==
    /\ [][(IsRequest /\ pc = "sent") =>
            /\ ~(GotRateLimitSignal /\ TrackerRotates)
            /\ Rotations(trace') =
                  Rotations(trace) +
                     (IF GotRateLimitSignal \/ TrackerRotates THEN 1 ELSE 0)]_vars
    /\ [][(IsRequest /\ pc = "attempt") =>
            Rotations(trace') = Rotations(trace)]_vars
    /\ [](IsRequest =>
            /\ Rotations(trace) <= Len(Attempts(trace))
            /\ Rotations(trace) <= retries + 1)

C28_Witness ==
    /\ IsRequest
    /\ pc = "returned"
    /\ retries = DefaultRetries
    /\ Len(api_tokens) = 2
    /\ Rotations(trace) = 4
    /\ Kinds(Attempts(trace)) = <<"errors", "HTTPError", "errors", "ok">>

(* ------------------------------- C29 ---------------------------------- *)

\* _handle_rate_limit ran on a snapshot that lacks field.
HandledWithout(field) == rl_call.called /\ field \notin DOMAIN rl_call.arg

\* C29: a rateLimit object without `remaining` is handled as one with
\* remaining == 0: the token is cycled once, without sleeping, when the pool
\* has more than one token, and the call pauses otherwise; one without
\* `resetAt` is handled as resetting at the clock of the call, so that the
\* pause of a single-token pool is exactly the 10 s buffer.
C29_MissingFieldsDefault ==
    /\ HandledWithout("remaining") =>
          IF Len(api_tokens) > 1
          THEN /\ Kinds(HandlerEvents) = <<"rotate">>
               /\ Follows(TokenAtHandler, current_token)
               /\ now = rl_call.at
          ELSE /\ Kinds(HandlerEvents) = <<"sleep">>
               /\ current_token = TokenAtHandler
               /\ "resetAt" \in DOMAIN rl_call.arg =>
                     LET resetAt == rl_call.arg.resetAt
                         wait    == IF resetAt > rl_call.at
                                    THEN resetAt - rl_call.at ELSE 0
                     IN  HandlerEvents = <<Sleep(wait + 10)>>
    /\ (/\ HandledWithout("resetAt")
        /\ Len(api_tokens) = 1
        /\ ("remaining" \in DOMAIN rl_call.arg => rl_call.arg.remaining < 100)) =>
          /\ HandlerEvents = <<Sleep(10)>>
          /\ now = rl_call.at + 10
          /\ current_token = TokenAtHandler

C29_Witness ==
    /\ HandledWithout("remaining")
    /\ HandledWithout("resetAt")
    /\ Len(api_tokens) = 1
    /\ IsRequest
    /\ pc = "returned"
    /\ HandlerEvents = <<Sleep(10)>>

(* ------------------------------- C30 ---------------------------------- *)

\* C30: with a pool of exactly one token, HTTP 429 or a rate-limit message
\* leaves the active token and the Authorization header unchanged (cycling
\* comes back to the same token); while attempts remain the engine sleeps
\* the backoff of 2^attempt seconds and nothing more, and the retry is sent
\* with that same token right after it, whatever the quota's reset time.
C30_SingleTokenRateLimit ==
    /\ [][(GotRateLimitSignal /\ Len(api_tokens) = 1) =>
            /\ current_token' = current_token
            /\ headers' = headers
            /\ cursor' = cursor
            /\ Rotations(trace') = Rotations(trace) + 1
            /\ IF attempt < retries
               THEN /\ pc' = "attempt"
                    /\ Sleeps(trace') = Append(Sleeps(trace), 2^attempt)
                    /\ now' = now + 2^attempt
               ELSE /\ pc' = "raised"
                    /\ Sleeps(trace') = Sleeps(trace)
                    /\ now' = now]_vars
    /\ [][(IsRequest /\ pc = "attempt" /\ attempt > 0 /\ Len(api_tokens) = 1) =>
            /\ pc' = "sent"
            /\ now' = now
            /\ trace' = Append(trace, Post(api_tokens[1]))]_vars
    /\ []((IsRequest /\ Len(api_tokens) = 1) =>
            /\ current_token = api_tokens[1]
            /\ headers = <<"Bearer", api_tokens[1]>>
            /\ \A i \in 1..Len(Posts(trace)) : Posts(trace)[i] = api_tokens[1])

C30_Witness ==
    /\ IsRequest
    /\ pc = "sent"
    /\ api_tokens = <<"tokA">>
    /\ Kinds(trace) = <<"_make_graphql_request", "post", "HTTPError", "rotate",
                        "sleep", "post", "errors", "rotate", "sleep", "post">>
    /\ Posts(trace) = <<"tokA", "tokA", "tokA">>
    /\ now = 3

(* ------------------------------- C31 ---------------------------------- *)

\* The attempt in progress got a response whose body is not JSON.
GotUndecodable ==
    /\ IsRequest
    /\ pc = "sent"
    /\ response.kind = "JSONDecodeError"

\* C31: a response that arrived but whose body cannot be decoded as JSON
\* ends the call on that attempt with the decoding error: no retry, no
\* backoff sleep and no rotation, whatever attempts remain.
C31_UndecodableBodyFailsAtOnce ==
    /\ [][GotUndecodable =>
            /\ pc' = "raised"
            /\ result' = Res("JSONDecodeError", 0, <<>>)
            /\ trace' = Append(trace, Outcome("JSONDecodeError"))
            /\ attempt' = attempt
            /\ now' = now
            /\ cursor' = cursor
            /\ current_token' = current_token
            /\ headers' = headers]_vars
    /\ [](\A i \in 1..Len(trace) :
            trace[i].e = "JSONDecodeError" => (i = Len(trace) /\ pc \in {"raised", "fetched"}))

C31_Witness ==
    /\ IsRequest
    /\ pc = "raised"
    /\ retries = DefaultRetries
    /\ attempt = 1
    /\ result.kind = "JSONDecodeError"
    /\ Kinds(Attempts(trace)) = <<"Timeout", "JSONDecodeError">>
    /\ Sleeps(trace) = <<1>>

(* ------------------------------- C32 ---------------------------------- *)

\* How many times the project of list position p has been handed to
\* load_project_data, and how many times it waits in projects_batch.
Passed(p) ==
    Cardinality({ ij \in (1..Len(loads)) \X (1..MaxRepos + 1) :
                    /\ loads[ij[1]].table = "projects"
                    /\ ij[2] <= Len(loads[ij[1]].rows)
                    /\ loads[ij[1]].rows[ij[2]] = p })
Waiting(p) ==
    Cardinality({ i \in 1..Len(batches["projects"]) : batches["projects"][i] = p })
WasTransformed(p) == \E i \in 1..Len(transformed) : transformed[i] = p

\* C32: every project record that transformed is handed to load_project_data
\* in exactly one batch by the time main finishes: while the loop runs it
\* either waits in projects_batch or has been passed once, never both and
\* never twice, and once main has finished it has been passed exactly once,
\* also when the last repository of the list failed extraction or
\* transformation; a position that did not transform is never passed.
C32_EveryProjectPassedOnce ==
    \A p \in 1..Len(repositories_to_process) :
        IF WasTransformed(p)
        THEN /\ main_pc = "loop" => Passed(p) + Waiting(p) = 1
             /\ main_pc = "finished" => Passed(p) = 1
        ELSE Passed(p) = 0 /\ Waiting(p) = 0

\* main has finished a list of two whose first project transformed and whose
\* last repository failed; the project went out in the flush after the loop.
C32_Witness ==
    /\ main_pc = "finished"
    /\ Len(repositories_to_process) = 2
    /\ transformed = <<1>>
    /\ failed_extraction_count + failed_transformation_count = 1
    /\ \E i \in 1..Len(loads) :
          loads[i].table = "projects" /\ loads[i].rows = <<1>> /\ loads[i].at = 0

(* ------------------------------- C33 ---------------------------------- *)

\* The projects the rows of a load_* call reference.
Referenced(call) == { call.rows[j] : j \in 1..Len(call.rows) }

Loaded(t) ==
    SumOf([i \in 1..Len(loads) |->
              IF loads[i].table = t /\ loads[i].ok THEN Len(loads[i].rows) ELSE 0])

\* A load_* call made inside the loop that raised.
RaisedInLoop(i) == loads[i].at # 0 /\ ~loads[i].ok

\* C34: a batch whose load raises inside the loop is discarded and the loop
\* goes on. The step that makes the call leaves the batch of that table
\* empty and its counter as it was, and moves to the next list position;
\* the rows of such a batch are in no later call for the table and in no
\* batch; and each counter is the number of rows in the calls for its table
\* that returned.
C34_FailedBatchIsDiscarded ==
    /\ [](\A t \in TableNames : successful_loads[t] = Loaded(t))
    /\ [](\A i \in 1..Len(loads) :
             RaisedInLoop(i) =>
                 \A p \in Referenced(loads[i]) :
                     /\ \A k \in (i + 1)..Len(loads) :
                           loads[k].table = loads[i].table => p \notin Referenced(loads[k])
                     /\ \A j \in 1..Len(batches[loads[i].table]) :
                           batches[loads[i].table][j] # p)
    /\ [][BackInLoop =>
            /\ main_pc' = "loop"
            /\ pbar_n' = pbar_n + 1
            /\ \A i \in (Len(loads) + 1)..Len(loads') :
                  ~loads'[i].ok =>
                      /\ batches'[loads'[i].table] = <<>>
                      /\ successful_loads'[loads'[i].table] =
                            successful_loads[loads'[i].table]]_vars

\* The load of the first repository's topic rows raised at position 1 of a
\* list of two; the loop went on to the second repository, whose topic
\* rows were loaded, and only those are counted.
C34_Witness ==
    /\ main_pc = "loop"
    /\ Len(repositories_to_process) = 2
    /\ pbar_n = 2
    /\ transformed = <<1, 2>>
    /\ \E i \in 1..Len(loads) :
          RaisedInLoop(i) /\ loads[i].table = "topics" /\ loads[i].at = 1
    /\ \E i \in 1..Len(loads) :
          /\ loads[i].table = "topics" /\ loads[i].at = 2 /\ loads[i].ok
          /\ loads[i].rows # <<>>
    /\ successful_loads["topics"] = batch_size

(* ------------------------------- C35 ---------------------------------- *)

\* A load_* call that failed: an error was raised inside its try block.
Failed(call) == call.error # NoError

\* C35: when a load_* method fails, the open transaction is rolled back and
\* the error that made it fail is the one re-raised to the caller, also when
\* the failure is that connect() could not open a connection.
C35_OriginalErrorReraised ==
    \A i \in 1..Len(loads) :
        Failed(loads[i]) =>
            /\ loads[i].rolled_back
            /\ loads[i].propagated = loads[i].error

====
